---- MODULE Spec2Model ----
(***************************************************************************)
(* A model of OkaProxy (Go): the verification gate and its token codec     *)
(* (internal/middleware/auth.go), the Redis rate limiter                   *)
(* (internal/middleware/redis.go), the per-listener gin pipeline and the   *)
(* listener lifecycle (the server package, second half of                  *)
(* internal/proxy/proxy.go).                                               *)
(*                                                                         *)
(* Strings are sequences of one-character strings, so that formatting,     *)
(* parsing, hex encoding and escaping are computed and not assumed.        *)
(***************************************************************************)
EXTENDS Integers, Sequences, FiniteSets, TLC

(***************************************************************************)
(* Bounds of the model.                                                    *)
(***************************************************************************)
\* how many times the clock may advance in one behaviour
MaxTicks == 3
\* how many requests one behaviour starts
MaxRequests == 3
\* how many executions of the rate limiter run at the same time
MaxCalls == 2

(***************************************************************************)
(* Characters and strings.                                                 *)
(***************************************************************************)
Digits == <<"0", "1", "2", "3", "4", "5", "6", "7", "8", "9">>

HexDigits == Digits \o <<"a", "b", "c", "d", "e", "f">>

\* every character a string of the model may hold
Alphabet == HexDigits \o <<"-", "+", " ">>

IndexOf(ch, seq) == CHOOSE i \in 1..Len(seq) : seq[i] = ch

IsDigit(ch) == \E i \in 1..Len(Digits) : Digits[i] = ch

DigitVal(ch) == IndexOf(ch, Digits) - 1

RECURSIVE FormatNat(_)
FormatNat(n) ==
    IF n < 10 THEN <<Digits[n + 1]>>
    ELSE Append(FormatNat(n \div 10), Digits[(n % 10) + 1])

\* strconv.FormatInt(n, 10)
FormatInt(n) == IF n < 0 THEN <<"-">> \o FormatNat(-n) ELSE FormatNat(n)

RECURSIVE ParseDigits(_, _)
ParseDigits(s, acc) ==
    IF s = <<>> THEN acc
    ELSE ParseDigits(Tail(s), acc * 10 + DigitVal(Head(s)))

\* strconv.ParseInt(s, 10, 64): an optional sign, then one or more decimal
\* digits; anything else is a syntax error.  The strings of the model are
\* too short to leave the range of an int64.
ParseInt(s) ==
    LET signed == s # <<>> /\ Head(s) \in {"-", "+"}
        body   == IF signed THEN Tail(s) ELSE s
        ok     == body # <<>> /\ \A i \in 1..Len(body) : IsDigit(body[i])
    IN  IF ~ok THEN [ok |-> FALSE, val |-> 0]
        ELSE [ok |-> TRUE,
              val |-> IF signed /\ Head(s) = "-" THEN -ParseDigits(body, 0)
                      ELSE ParseDigits(body, 0)]

\* the digits of strconv.FormatInt for bases above 10
Digits36 ==
    Digits \o << "a", "b", "c", "d", "e", "f", "g", "h", "i", "j", "k", "l",
                 "m", "n", "o", "p", "q", "r", "s", "t", "u", "v", "w", "x",
                 "y", "z" >>

\* long division of a number, given by its decimal digits s, by d: the
\* decimal digits of the quotient and the remainder
RECURSIVE DivDigits(_, _, _, _)
DivDigits(s, d, quot, rem) ==
    IF s = <<>> THEN [quot |-> quot, rem |-> rem]
    ELSE DivDigits(Tail(s), d, Append(quot, (rem * 10 + Head(s)) \div d),
                   (rem * 10 + Head(s)) % d)

RECURSIVE FormatBase36(_)
FormatBase36(s) ==
    IF \A i \in 1..Len(s) : s[i] = 0 THEN <<>>
    ELSE Append(FormatBase36(DivDigits(s, 36, <<>>, 0).quot),
                Digits36[DivDigits(s, 36, <<>>, 0).rem + 1])

\* strconv.FormatInt(n, 36) of a non-negative int64 given by its decimal
\* digits: the digits 0-9a-z, most significant first, "0" for zero
FormatInt36(s) ==
    IF \A i \in 1..Len(s) : s[i] = 0 THEN <<"0">> ELSE FormatBase36(s)

\* url.QueryEscape on the characters of the model: a space is written "+",
\* the unreserved characters are kept ("+" itself would be written %2B and
\* is not produced by the code's own values)
QueryEscape(s) == [i \in 1..Len(s) |-> IF s[i] = " " THEN "+" ELSE s[i]]

\* url.QueryUnescape: "+" is read as a space
QueryUnescape(s) == [i \in 1..Len(s) |-> IF s[i] = "+" THEN " " ELSE s[i]]

(***************************************************************************)
(* Token codec.                                                            *)
(***************************************************************************)
\* sha256.Size: the length of a digest in bytes
DigestSize == 32

\* the longest message the numbering below tells apart (keys are one
\* character long)
MaxDataLen == 5

CharCode(ch) == IndexOf(ch, Alphabet)

Radix == Len(Alphabet) + 1

RECURSIVE Pow(_, _)
Pow(b, e) == IF e = 0 THEN 1 ELSE b * Pow(b, e - 1)

RECURSIVE StrNum(_)
StrNum(s) == IF s = <<>> THEN 0 ELSE StrNum(Tail(s)) * Radix + CharCode(Head(s))

\* hmac.New(sha256.New, key); h.Write(data); h.Sum(nil).  HMAC-SHA256 is
\* modelled as a collision-free keyed function: the digest is the
\* big-endian DigestSize-byte form of an injective numbering of (key, data).
HmacSha256(key, data) ==
    LET n == StrNum(key) * Pow(Radix, MaxDataLen) + StrNum(data)
    IN  [i \in 1..DigestSize |->
            IF DigestSize - i > 3 THEN 0
            ELSE (n \div Pow(256, DigestSize - i)) % 256]

\* hex.EncodeToString: two lower-case hex digits per byte
HexEncode(bytes) ==
    [i \in 1..(2 * Len(bytes)) |->
        LET b == bytes[(i + 1) \div 2]
        IN  IF i % 2 = 1 THEN HexDigits[(b \div 16) + 1]
            ELSE HexDigits[(b % 16) + 1]]

\* a token that does not depend on the key
encryptTokenUnkeyed(data, secretKey) == HexEncode(HmacSha256(<<>>, data))

encryptToken(data, secretKey) == HexEncode(HmacSha256(secretKey, data))

\* the positions a comparison loop visits that stops at the first byte
\* that differs
VisitedUntilMismatch(x, y) ==
    { i \in 1..Len(x) : \A j \in 1..(i - 1) : x[j] = y[j] }

\* the positions the loop of subtle.ConstantTimeCompare visits in slices of
\* one length: for i := 0; i < len(x); i++ { v |= x[i] ^ y[i] }, a loop
\* without an exit
Visited(x, y) == 1..Len(x)

\* subtle.ConstantTimeCompare: 1 when the slices are equal, 0 otherwise; 0
\* at once when their lengths differ.  looked: the bytes it compared.
ConstantTimeCompareRun(x, y) ==
    IF Len(x) # Len(y) THEN [result |-> 0, looked |-> 0]
    ELSE [result |-> IF \E i \in Visited(x, y) : x[i] # y[i] THEN 0 ELSE 1,
          looked |-> Cardinality(Visited(x, y))]

ConstantTimeCompare(x, y) == ConstantTimeCompareRun(x, y).result

\* a comparison that looks at the length alone
verifyTokenLengthOnly(data, token, secretKey) ==
    Len(encryptToken(data, secretKey)) = Len(token)

\* verifyToken: its answer and the number of bytes it compared
verifyTokenRun(data, token, secretKey) ==
    LET expected == encryptToken(data, secretKey)
    IN  IF Len(expected) # Len(token) THEN [ok |-> FALSE, looked |-> 0]
        ELSE [ok |-> ConstantTimeCompare(expected, token) = 1,
              looked |-> ConstantTimeCompareRun(expected, token).looked]

verifyToken(data, token, secretKey) ==
    verifyTokenRun(data, token, secretKey).ok


(***************************************************************************)
(* Configuration (internal/config/config.go): read-only after load.        *)
(***************************************************************************)
\* config.Config.Server: one ServerConfig per listener
Servers ==
    << [Name |-> "alpha", Port |-> 3000, TargetURL |-> "http://up-a",
        SecretKey |-> <<"a">>, Expired |-> 1, CtnMax |-> 0, HTTPS |-> FALSE],
       [Name |-> "beta", Port |-> 3443, TargetURL |-> "http://up-b",
        SecretKey |-> <<"b">>, Expired |-> 1, CtnMax |-> 1, HTTPS |-> TRUE],
       [Name |-> "gamma", Port |-> 3001, TargetURL |-> "http://[::1",
        SecretKey |-> <<"a">>, Expired |-> 2, CtnMax |-> 0, HTTPS |-> FALSE] >>

\* a range loop with one variable for all its turns: every closure that
\* took its address reads the spec of the last turn
ServerConfigShared(srv) == Servers[Len(Servers)]

\* the loop of Start: startServer(i, &serverConfig), the loop variable being
\* a new one in every turn; the handlers of listener srv keep that pointer
ServerConfigOf(srv) == Servers[srv]

\* target URLs url.Parse refuses (here: a host with an unclosed bracket);
\* config.Validate only requires target_url to be non-empty
UnparsableURLs == { "http://[::1" }

\* config.Config.Limit, as the configuration file may set it: Count requests
\* per Window seconds; a zero in either switches the limiter off
LimitConfigs ==
    { [Count |-> 1, Window |-> 1], [Count |-> 2, Window |-> 1],
      [Count |-> 0, Window |-> 1], [Count |-> 2, Window |-> 0] }

ValidationTokenCookie == "oka_validation_token"
ValidationExpirationCookie == "oka_validation_expiration"

\* the static challenge page handed to NewAuthMiddleware
verificationPage == "verification.html"

\* the gateway-error page handed to NewProxyManager
errorPage == "502.html"

(***************************************************************************)
(* State.                                                                  *)
(***************************************************************************)
VARIABLES
    now,        \* time.Now().UnixMilli(): the wall clock, in milliseconds
    ticks,      \* how often the clock has advanced
    limit,      \* config.Config.Limit of this run
    store,      \* the Redis keyspace: rate key -> [count, expireAt]
    window,     \* history: per rate key, the script runs of the current window
    ctx,        \* the gin.Context of the request being handled
    nreq,       \* requests started so far
    upstream,   \* requests sent to an upstream target, per listener
    jar,        \* the cookies a client holds, as last sent to it
    issuer,     \* history: the listener whose response filled the jar
    refused,    \* history: the signed pairs the gate has turned away
    minted,     \* history: per listener, the newest expiration it has signed
    calls,      \* the concurrent executions of RateLimitMiddleware
    codec,      \* the arguments and results of one use of a pure function
    life,       \* the server Manager: goroutines, WaitGroup, channels, requests
    pool        \* per listener, the connections of its http.Transport

clockVars == <<now, ticks>>
storeVars == <<store, window>>
pipeVars  == <<ctx, nreq, upstream, jar, issuer, refused, minted>>

vars == <<now, ticks, limit, store, window, ctx, nreq, upstream, jar, issuer,
          refused, minted, calls, codec, life, pool>>

(***************************************************************************)
(* Requests and the gin.Context.                                           *)
(***************************************************************************)
\* a cookie of the request or of the jar: absent, or present with a value
NoCookie == [present |-> FALSE, value |-> <<>>]
SomeCookie(v) == [present |-> TRUE, value |-> v]

\* one comma-separated piece of a header value, as written: text with
\* lead blanks before it and trail blanks after it
Piece(lead, text, trail) == [lead |-> lead, text |-> text, trail |-> trail]

\* a piece without blanks around it
Addr(text) == Piece(0, text, 0)

\* strings.TrimSpace of a piece
TrimSpace(piece) == piece.text

\* whether the header value made of these pieces is the empty string:
\* Header.Get gives "" for an absent header and for one with no value
EmptyValue(pieces) == pieces = <<>> \/ pieces = <<Addr("")>>

\* the connection and identity headers of a request; X-Forwarded-For is
\* the sequence of pieces strings.Split(xff, ",") gives
Client(cf, realIP, xff, host) ==
    [CF |-> cf, RealIP |-> realIP, XFF |-> xff,
     RemoteAddr |-> [host |-> host, port |-> "5001"]]

Clients ==
    { Client("", "", <<>>, "10.0.0.1"),
      Client("", "", <<>>, "10.0.0.2"),
      Client("10.0.0.1", "", <<>>, "10.0.0.9"),
      Client("", "", <<Addr("10.0.0.2"), Piece(1, "10.0.0.7", 0)>>,
             "10.0.0.9") }

\* logger.GetClientIP: CF-Connecting-IP, then X-Real-IP, then the first
\* address of X-Forwarded-For, then the host of RemoteAddr
GetClientIP(r) ==
    IF r.CF # "" THEN r.CF
    ELSE IF r.RealIP # "" THEN r.RealIP
    ELSE IF ~EmptyValue(r.XFF) THEN TrimSpace(r.XFF[1])
    ELSE r.RemoteAddr.host

\* the requests GetClientIP is applied to on its own: each header absent or
\* with one of two addresses, X-Forwarded-For absent, empty, with one or two
\* pieces, padded, or beginning with a comma
IdentityRequests ==
    { Client(cf, realIP, xff, host) :
        cf \in {"", "10.0.0.1", "10.0.0.3"},
        realIP \in {"", "10.0.0.2", "10.0.0.3"},
        xff \in { <<>>, <<Addr("")>>, <<Addr("10.0.0.7")>>,
                  <<Piece(0, "10.0.0.7", 1), Piece(1, "10.0.0.8", 0)>>,
                  <<Addr(""), Piece(1, "10.0.0.7", 0)>>,
                  <<Addr(""), Addr("")>> },
        host \in {"10.0.0.9", "10.0.0.1"} }

ClientIPs == { GetClientIP(r) : r \in Clients }

\* a transport that has not dialled yet
NoConns == [active |-> 0, idle |-> 0, waiting |-> 0]

\* c.Request of a context that handles no request
NoRequest ==
    [phase |-> "idle", srv |-> 1, method |-> "", path |-> "",
     client |-> Client("", "", <<>>, ""),
     cookies |-> [token |-> NoCookie, expiration |-> NoCookie],
     index |-> 0, aborted |-> FALSE, status |-> 0, body |-> "",
     setCookies |-> <<>>, header |-> {}, ran |-> <<>>, gateNow |-> -1,
     limiter |-> "none", counted |-> FALSE, current |-> 0,
     forwarded |-> FALSE, probed |-> FALSE,
     relay |-> [status |-> 0, header |-> {}],
     outbound |-> [XFF |-> <<>>, RealIP |-> "", Proto |-> "",
                   Target |-> ""]]

\* a new context for an accepted request (gin resets it from its pool)
NewContext(srv, method, path, client, cookies) ==
    [NoRequest EXCEPT !.phase = "run", !.srv = srv, !.method = method,
                      !.path = path, !.client = client, !.cookies = cookies,
                      !.index = 1]

\* c.Cookie(name): http.ErrNoCookie when the request has no such cookie,
\* otherwise the unescaped value
Cookie(c, name) ==
    LET ck == IF name = ValidationTokenCookie THEN c.cookies.token
              ELSE c.cookies.expiration
    IN  IF ck.present THEN [err |-> FALSE, val |-> QueryUnescape(ck.value)]
        ELSE [err |-> TRUE, val |-> <<>>]

\* c.SetCookie(name, value, maxAge, path, domain, secure, httpOnly): appends
\* one Set-Cookie header with the escaped value
SetCookie(c, name, value, maxAge, path, domain, secure, httpOnly) ==
    [c EXCEPT !.setCookies =
        Append(@, [Name |-> name, Value |-> QueryEscape(value),
                   MaxAge |-> maxAge, Path |-> path, Domain |-> domain,
                   Secure |-> secure, HttpOnly |-> httpOnly])]

\* c.Header(key, value)
Header(c, key, value) ==
    [c EXCEPT !.header = {h \in @ : h[1] # key} \cup {<<key, value>>}]

\* c.String / c.JSON / a written response: status and body
Respond(c, code, body) == [c EXCEPT !.status = code, !.body = body]

\* an Abort that leaves the chain running
AbortIgnored(c) == c

\* c.Abort(): no later handler of the chain runs
Abort(c) == [c EXCEPT !.aborted = TRUE]

(***************************************************************************)
(* Verification gate (internal/middleware/auth.go).                        *)
(***************************************************************************)
\* a challenge that adds the lifetime in seconds to a clock in milliseconds
showVerificationPageSeconds(c, serverConfig, t) ==
    LET newExpirationStr == FormatInt(t + serverConfig.Expired)
        newToken == encryptToken(newExpirationStr, serverConfig.SecretKey)
        c1 == [c EXCEPT !.setCookies = @ \o
                 << [Name |-> ValidationTokenCookie, Value |-> newToken,
                     MaxAge |-> serverConfig.Expired, Path |-> "/",
                     Domain |-> "", Secure |-> FALSE, HttpOnly |-> TRUE],
                    [Name |-> ValidationExpirationCookie,
                     Value |-> newExpirationStr,
                     MaxAge |-> serverConfig.Expired, Path |-> "/",
                     Domain |-> "", Secure |-> FALSE, HttpOnly |-> TRUE] >>]
    IN  [c1 EXCEPT !.status = 200, !.body = verificationPage,
                   !.aborted = TRUE]

\* showVerificationPage: mint a pair for t + Expired seconds, set both
\* cookies, answer 200 with the challenge page and abort the chain
showVerificationPage(c, serverConfig, t) ==
    LET newExpirationTime == t + serverConfig.Expired * 1000
        newExpirationStr  == FormatInt(newExpirationTime)
        newToken == encryptToken(newExpirationStr, serverConfig.SecretKey)
        c1 == SetCookie(c, ValidationTokenCookie, newToken,
                        serverConfig.Expired, "/", "", FALSE, TRUE)
        c2 == SetCookie(c1, ValidationExpirationCookie, newExpirationStr,
                        serverConfig.Expired, "/", "", FALSE, TRUE)
        c3 == Header(c2, "Content-Type", "text/html; charset=utf-8")
    IN  Abort(Respond(c3, 200, verificationPage))

\* a challenge that sets the fresh pair first and expires both cookies
\* after it
showVerificationThenClear(c, serverConfig, t) ==
    LET c0 == showVerificationPage(c, serverConfig, t)
        c1 == SetCookie(c0, ValidationTokenCookie, <<>>, -1, "/", "",
                        FALSE, TRUE)
    IN  SetCookie(c1, ValidationExpirationCookie, <<>>, -1, "/", "",
                  FALSE, TRUE)

\* clearCookiesAndShowVerification: expire both cookies, then challenge
clearCookiesAndShowVerification(c, serverConfig, t) ==
    LET c1 == SetCookie(c, ValidationTokenCookie, <<>>, -1, "/", "",
                        FALSE, TRUE)
        c2 == SetCookie(c1, ValidationExpirationCookie, <<>>, -1, "/", "",
                        FALSE, TRUE)
    IN  showVerificationPage(c2, serverConfig, t)

\* an expiry test that already turns the token away at its expiration
ExpiredAtDeadline(t, validationExpiration) == t >= validationExpiration

\* the expiry test of CheckVerification
Expired(t, validationExpiration) == t > validationExpiration

\* a gate that keeps the newest pair it has signed and takes no older one
CheckVerificationLatestOnly(c, serverConfig, t) ==
    LET tok == Cookie(c, ValidationTokenCookie)
        exp == Cookie(c, ValidationExpirationCookie)
        validationExpiration == ParseInt(exp.val)
    IN  IF tok.err \/ tok.val = <<>> \/ exp.err \/ exp.val = <<>>
            THEN showVerificationPage(c, serverConfig, t)
        ELSE IF \/ ~validationExpiration.ok
                \/ Expired(t, validationExpiration.val)
                \/ validationExpiration.val < minted[c.srv]
                \/ ~verifyToken(exp.val, tok.val, serverConfig.SecretKey)
            THEN clearCookiesAndShowVerification(c, serverConfig, t)
        ELSE c

\* CheckVerification: the handler, for a request handled at clock value t.
\* A context that comes back not aborted goes on to the next handler.
CheckVerification(c, serverConfig, t) ==
    LET tok == Cookie(c, ValidationTokenCookie)
        exp == Cookie(c, ValidationExpirationCookie)
        validationExpiration == ParseInt(exp.val)
    IN  IF tok.err \/ tok.val = <<>>
            THEN showVerificationPage(c, serverConfig, t)
        ELSE IF exp.err \/ exp.val = <<>>
            THEN showVerificationPage(c, serverConfig, t)
        ELSE IF ~validationExpiration.ok
            THEN clearCookiesAndShowVerification(c, serverConfig, t)
        ELSE IF Expired(t, validationExpiration.val)
            THEN clearCookiesAndShowVerification(c, serverConfig, t)
        ELSE IF ~verifyToken(exp.val, tok.val, serverConfig.SecretKey)
            THEN clearCookiesAndShowVerification(c, serverConfig, t)
        ELSE c

(***************************************************************************)
(* Rate limiter (internal/middleware/redis.go) and the Redis keyspace.     *)
(***************************************************************************)
\* fmt.Sprintf("oka_rate_limit:%s", clientIP)
RateKey(clientIP) == <<"oka_rate_limit", clientIP>>

RateKeys == { RateKey(ip) : ip \in ClientIPs }

\* a key that does not exist; expireAt = -1 is a key without a TTL
NoKey == [count |-> 0, expireAt |-> -1]

KeyExists(st, key) == st[key].count > 0

\* Redis removes a key when its TTL has run out
Purge(st, t) ==
    [k \in DOMAIN st |->
        IF st[k].expireAt # -1 /\ st[k].expireAt <= t THEN NoKey ELSE st[k]]

\* INCR key: a missing key counts from zero and is created without a TTL
INCR(st, key) == [st EXCEPT ![key].count = @ + 1]

\* EXPIRE key seconds, issued at clock value t
EXPIRE(st, key, seconds, t) ==
    IF KeyExists(st, key)
    THEN [st EXCEPT ![key].expireAt = t + seconds * 1000]
    ELSE st

\* a script that increments and never sets the TTL
luaScriptNoExpire(st, key, seconds, t) ==
    [store |-> INCR(st, key), current |-> INCR(st, key)[key].count,
     expire |-> FALSE]

\* a script that sets the TTL again at every request
luaScriptSliding(st, key, seconds, t) ==
    [store |-> EXPIRE(INCR(st, key), key, seconds, t),
     current |-> INCR(st, key)[key].count,
     expire |-> INCR(st, key)[key].count = 1]

\* the Lua script of RateLimitMiddleware, run by Redis as one atomic
\* command: INCR, and EXPIRE when the result is 1
luaScript(st, key, seconds, t) ==
    LET st1     == INCR(st, key)
        current == st1[key].count
    IN  [store |-> IF current = 1 THEN EXPIRE(st1, key, seconds, t) ELSE st1,
         current |-> current,
         expire |-> current = 1]

\* what the client may learn of one Eval: the reply; an error with the
\* script never run; an error (the 1 s timeout) after the script has run
EvalOutcomes == {"reply", "failed", "lost"}

\* whether the script has run at the store
Ran(outcome) == outcome \in {"reply", "lost"}

\* a switch that looks at the ceiling only
DisabledCountOnly(cfgLimit) == cfgLimit.Count = 0

\* RateLimitMiddleware, first lines: the limiter is switched off
Disabled(cfgLimit) == cfgLimit.Count = 0 \/ cfgLimit.Window = 0

\* a ceiling test that already turns the request at the ceiling away
ExceededAtCeiling(requests, count) == requests >= count

\* the ceiling test of RateLimitMiddleware
Exceeded(requests, count) == requests > count

\* a limiter that turns the request away when its Eval fails
DecideFailClosed(c, cfgLimit, outcome, current) ==
    IF outcome # "reply" \/ current > cfgLimit.Count
    THEN Abort(Respond([c EXCEPT !.limiter = "reject"], 429, ""))
    ELSE [c EXCEPT !.limiter = "pass", !.counted = TRUE, !.current = current]

\* RateLimitMiddleware after the Eval: what it does with the result
Decide(c, cfgLimit, outcome, current) ==
    IF outcome = "failed" THEN [c EXCEPT !.limiter = "failed"]
    ELSE IF outcome = "lost" THEN [c EXCEPT !.limiter = "lost", !.counted = TRUE]
    ELSE IF Exceeded(current, cfgLimit.Count)
        THEN Abort(Respond(
                 [c EXCEPT !.limiter = "reject", !.counted = TRUE,
                           !.current = current],
                 429,
                 "{\"message\":\"Too many requests, please try again later.\"}"))
    ELSE [c EXCEPT !.limiter = "pass", !.counted = TRUE, !.current = current]

\* a limiter that keys its counter on the socket address of the request
RateLimitMiddlewareBySocket(c, cfgLimit, st, t, outcome) ==
    IF Disabled(cfgLimit)
    THEN [ctx |-> [c EXCEPT !.limiter = "off"], store |-> st,
          current |-> 0, expire |-> FALSE]
    ELSE
      LET key    == RateKey(c.client.RemoteAddr.host)
          result == luaScript(st, key, cfgLimit.Window, t)
      IN  [ctx |-> Decide(c, cfgLimit, outcome, result.current),
           store |-> IF Ran(outcome) THEN result.store ELSE st,
           current |-> IF Ran(outcome) THEN result.current ELSE 0,
           expire |-> Ran(outcome) /\ result.expire]

\* RateLimitMiddleware: the whole handler.  Gives the context, the keyspace
\* and what the script did.
RateLimitMiddleware(c, cfgLimit, st, t, outcome) ==
    IF Disabled(cfgLimit)
    THEN [ctx |-> [c EXCEPT !.limiter = "off"], store |-> st,
          current |-> 0, expire |-> FALSE]
    ELSE
      LET clientIP == GetClientIP(c.client)
          key      == RateKey(clientIP)
          result   == luaScript(st, key, cfgLimit.Window, t)
      IN  [ctx |-> Decide(c, cfgLimit, outcome, result.current),
           store |-> IF Ran(outcome) THEN result.store ELSE st,
           current |-> IF Ran(outcome) THEN result.current ELSE 0,
           expire |-> Ran(outcome) /\ result.expire]

\* history of one rate key: when its current window began (-1: no window),
\* what each script run of the window saw and whether it set the TTL, and
\* whether some Eval of the window failed
NoWindow == [start |-> -1, seen |-> <<>>, failures |-> FALSE]

\* the window ends cfgLimit.Window seconds after it began
CloseWindows(w, cfgLimit, t) ==
    [k \in DOMAIN w |->
        IF w[k].start # -1 /\ t >= w[k].start + cfgLimit.Window * 1000
        THEN NoWindow ELSE w[k]]

\* the history after one execution of the handler for a client
Observe(w, c, cfgLimit, t, outcome, r) ==
    IF Disabled(cfgLimit) THEN w
    ELSE LET k == RateKey(GetClientIP(c.client))
         IN  [w EXCEPT
                ![k].start = IF @ = -1 /\ Ran(outcome) THEN t ELSE @,
                ![k].seen = IF Ran(outcome)
                            THEN Append(@, <<r.current, r.expire>>) ELSE @,
                ![k].failures = IF w[k].start = -1 THEN outcome = "lost"
                                ELSE @ \/ outcome # "reply"]

(***************************************************************************)
(* The pipeline of one listener (server package: addMiddlewares,           *)
(* addRoutes) and the remaining handlers.                                  *)
(***************************************************************************)
\* addMiddlewares: router.Use, in this order
Middlewares ==
    << "Recovery", "Logger", "RequestID", "SecurityHeaders", "CORS", "Gzip",
       "CheckVerification", "RateLimit" >>

\* addRoutes: GET /health, GET /status, and NoRoute for everything else
RouteHandler(method, path) ==
    IF method = "GET" /\ path = "/health" THEN "HealthCheck"
    ELSE IF method = "GET" /\ path = "/status" THEN "Status"
    ELSE "Proxy"

\* the handler chain gin runs for a request: the middlewares registered with
\* Use before the route was added, then the route's handler
Handlers(method, path) == Middlewares \o <<RouteHandler(method, path)>>

\* the handler the context is about to run
Current ==
    IF ctx.phase = "run" THEN Handlers(ctx.method, ctx.path)[ctx.index]
    ELSE "none"

\* gin's c.Next() loop after a handler has returned: the next handler of the
\* chain, unless the handler aborted or was the last one
Advance(c) ==
    LET chain == Handlers(c.method, c.path)
        c1    == [c EXCEPT !.ran = Append(@, chain[c.index])]
    IN  IF c1.aborted \/ c1.index = Len(chain)
        THEN [c1 EXCEPT !.phase = "done"]
        ELSE [c1 EXCEPT !.index = @ + 1]

\* SecurityHeadersMiddleware
SecurityHeadersMiddleware(c) ==
    LET c1 == Header(c, "X-Content-Type-Options", "nosniff")
        c2 == Header(c1, "X-Frame-Options", "DENY")
        c3 == Header(c2, "X-XSS-Protection", "1; mode=block")
        c4 == Header(c3, "Referrer-Policy", "strict-origin-when-cross-origin")
    IN  IF Servers[c.srv].HTTPS
        THEN Header(c4, "Strict-Transport-Security",
                    "max-age=31536000; includeSubDomains")
        ELSE c4

\* a CORSMiddleware that sets its headers and hands every request on
CORSMiddlewareHeadersOnly(c) ==
    Header(Header(c, "Access-Control-Allow-Credentials", "true"),
           "Access-Control-Allow-Methods", "POST, OPTIONS, GET, PUT, DELETE")

\* CORSMiddleware: a preflight is answered 204 and aborted
CORSMiddleware(c) ==
    LET c1 == Header(c, "Access-Control-Allow-Credentials", "true")
        c2 == Header(c1, "Access-Control-Allow-Methods",
                     "POST, OPTIONS, GET, PUT, DELETE")
    IN  IF c.method = "OPTIONS" THEN Abort(Respond(c2, 204, "")) ELSE c2

\* HealthCheckHandler
HealthCheckHandler(c) == Respond(c, 200, "{status: healthy}")

\* StatusHandler: probes the target with http.Get and reports the result
StatusHandler(c, reachable) ==
    Respond([c EXCEPT !.probed = TRUE], 200,
            IF reachable THEN "{target_status: reachable}"
            ELSE "{target_status: unreachable}")

\* CreateReverseProxy, first lines: url.Parse(serverConfig.TargetURL)
CreateReverseProxy(serverConfig) ==
    [err |-> serverConfig.TargetURL \in UnparsableURLs]

\* the Director of CreateReverseProxy: the target the proxy was built for
\* (parsed once, when ProxyHandler is called in addRoutes) and the headers
\* it sets on the outbound request, which starts as a copy of the inbound
\* one
Director(c) ==
    LET req      == c.client
        clientIP == GetClientIP(req)
        chain    == IF req.XFF # <<>>
                    THEN req.XFF \o <<Piece(1, clientIP, 0)>>
                    ELSE <<Addr(clientIP)>>
    IN  [XFF |-> chain,
         RealIP |-> GetClientIP([req EXCEPT !.XFF = chain]),
         Proto |-> IF Servers[c.srv].HTTPS THEN "https" ELSE "http",
         Target |-> Servers[c.srv].TargetURL]

\* httputil.ReverseProxy.ServeHTTP after the Director has run: the host of
\* RemoteAddr is appended to whatever X-Forwarded-For the outbound request
\* has by then
ServeHTTP(c, out) ==
    [out EXCEPT !.XFF = @ \o <<Piece(1, c.client.RemoteAddr.host, 0)>>]

\* the ErrorHandler a ReverseProxy has when none is set: 502, no body
defaultErrorHandler(c) == Respond(c, 502, "")

\* createErrorHandler: 502 with the gateway-error page
createErrorHandler(c) ==
    Respond(Header(c, "X-Proxy-Error", "true"), 502, errorPage)

\* the headers an upstream may put on its response
UpstreamHeaders ==
    { {},
      { <<"Server", "nginx">>, <<"X-Powered-By", "PHP">>,
        <<"X-Content-Type-Options", "none">>,
        <<"X-Frame-Options", "SAMEORIGIN">>,
        <<"Strict-Transport-Security", "max-age=600">> } }

\* the status codes an upstream may answer with
UpstreamStatuses == {200, 404, 503}

\* the responses of an upstream: status and headers
UpstreamResponses == [status : UpstreamStatuses, header : UpstreamHeaders]

\* a ModifyResponse that stamps its headers and removes none
ModifyResponseStampOnly(resp) ==
    { h \in resp : h[1] \notin {"X-Proxy-By", "X-Content-Type-Options"} }
      \cup { <<"X-Proxy-By", "OkaProxy">>,
             <<"X-Content-Type-Options", "nosniff">> }

\* ModifyResponse of CreateReverseProxy, on the headers of the upstream
\* response: Set X-Proxy-By and X-Content-Type-Options, Del Server and
\* X-Powered-By
ModifyResponse(resp) ==
    { h \in resp : h[1] \notin {"X-Proxy-By", "X-Content-Type-Options",
                                "Server", "X-Powered-By"} }
      \cup { <<"X-Proxy-By", "OkaProxy">>,
             <<"X-Content-Type-Options", "nosniff">> }

\* httputil.ReverseProxy.ServeHTTP, response side: the headers of the
\* modified upstream response are added to those the ResponseWriter
\* already has; the status and body of the upstream are relayed.  relay
\* keeps the response as the upstream sent it.
Relay(c, resp) ==
    Respond([c EXCEPT !.header = @ \cup ModifyResponse(resp.header),
                      !.relay = resp],
            resp.status, "upstream response")

\* a ProxyHandler whose proxy sends the inbound headers on as they came
ProxyHandlerPlain(c, reachable, resp) ==
    Respond([c EXCEPT !.forwarded = TRUE,
                      !.outbound = [XFF |-> c.client.XFF,
                                    RealIP |-> c.client.RealIP,
                                    Proto |-> "http",
                                    Target |-> Servers[c.srv].TargetURL]],
            200, "upstream response")

\* ProxyHandler: when the proxy could not be created every request is
\* answered 500; otherwise one attempt at the upstream: its response is
\* relayed, a transport error goes to createErrorHandler (502 and the
\* error page)
ProxyHandler(c, reachable, resp) ==
    IF CreateReverseProxy(Servers[c.srv]).err
    THEN Respond(c, 500, "Proxy configuration error")
    ELSE LET c1 == [c EXCEPT !.forwarded = TRUE,
                             !.outbound = ServeHTTP(c, Director(c))]
         IN  IF reachable
             THEN Relay(c1, resp)
             ELSE createErrorHandler(c1)

(***************************************************************************)
(* The client side: which cookies a request carries.                       *)
(***************************************************************************)
\* what a client makes of the Set-Cookie headers of a response, in order
RECURSIVE ApplySetCookies(_, _)
ApplySetCookies(j, cs) ==
    IF cs = <<>> THEN j
    ELSE LET h     == Head(cs)
             value == IF h.MaxAge < 0 THEN NoCookie ELSE SomeCookie(h.Value)
         IN  ApplySetCookies(
                 IF h.Name = ValidationTokenCookie
                 THEN [j EXCEPT !.token = value]
                 ELSE [j EXCEPT !.expiration = value],
                 Tail(cs))

\* the last character of a token replaced by another hex digit
Tamper(tok) ==
    IF tok = <<>> THEN <<"0">>
    ELSE [tok EXCEPT ![Len(tok)] = IF @ = "0" THEN "1" ELSE "0"]

\* the token in upper-case hex digits
ToUpper(tok) ==
    LET lower == <<"a", "b", "c", "d", "e", "f">>
        upper == <<"A", "B", "C", "D", "E", "F">>
    IN  [i \in 1..Len(tok) |->
            IF \E k \in 1..6 : lower[k] = tok[i]
            THEN upper[IndexOf(tok[i], lower)] ELSE tok[i]]

\* the expiration one second later than the one the server signed
Postpone(exp) ==
    IF ParseInt(exp).ok THEN FormatInt(ParseInt(exp).val + 1000) ELSE <<"1">>

\* the requests a client holding jar j may send: the jar as it is, no
\* cookies, and the ways of leaving out, emptying or forging one of the two
Presentations(j) ==
    LET t == j.token
        e == j.expiration
    IN  { j,
          [token |-> NoCookie, expiration |-> NoCookie],
          [token |-> t, expiration |-> NoCookie],
          [token |-> NoCookie, expiration |-> e],
          [token |-> SomeCookie(<<>>), expiration |-> e],
          [token |-> t, expiration |-> SomeCookie(<<>>)],
          [token |-> t, expiration |-> SomeCookie(<<"f", "f">>)],
          [token |-> t, expiration |-> SomeCookie(<<"+">> \o e.value)],
          [token |-> t, expiration |-> SomeCookie(Postpone(e.value))],
          [token |-> SomeCookie(Tamper(t.value)), expiration |-> e] }

(***************************************************************************)
(* Actions: one request at a time travels down its handler chain.          *)
(***************************************************************************)
\* how far the clock may jump in one step, in milliseconds
TickSteps == {1, 999}

Routes == { <<"GET", "/health">>, <<"GET", "/status">>, <<"GET", "/app">>,
            <<"POST", "/app">>, <<"OPTIONS", "/app">>, <<"POST", "/health">> }

NoCookies == [token |-> NoCookie, expiration |-> NoCookie]

\* no handler execution has finished yet
NoCall == [c |-> NoRequest, outcome |-> "none", rank |-> 0, clean |-> FALSE]

NoCodec == [pc |-> "none"]

\* WaitForShutdown: context.WithTimeout(context.Background(), 30*time.Second)
GraceTimeout == 30

\* the Manager once Start has returned: one serve goroutine per listener in
\* ListenAndServeTLS or ListenAndServe, each counted by wg.Add(1) and each
\* server appended to m.servers; main is about to block on the shutdown
\* channel
Started ==
    [pc |-> "wait", signal |-> FALSE, notify |-> TRUE,
     servers |-> [i \in 1..Len(Servers) |-> i],
     serve |-> [i \in 1..Len(Servers) |->
                  IF Servers[i].HTTPS THEN "tls" ELSE "plain"],
     shut |-> [i \in 1..Len(Servers) |-> "none"],
     stops |-> [i \in 1..Len(Servers) |-> 0],
     wg |-> Len(Servers), waiter |-> "none", done |-> FALSE,
     elapsed |-> 0,
     before |-> [i \in 1..Len(Servers) |-> 0],
     after |-> [i \in 1..Len(Servers) |-> 0],
     reason |-> "none", logged |-> {}, released |-> 0]

InitPipeline ==
    /\ now = 0
    /\ ticks = 0
    /\ limit \in LimitConfigs
    /\ store = [k \in RateKeys |-> NoKey]
    /\ window = [k \in RateKeys |-> NoWindow]
    /\ ctx = NoRequest
    /\ nreq = 0
    /\ upstream = [i \in 1..Len(Servers) |-> 0]
    /\ jar = NoCookies
    /\ issuer = 0
    /\ refused = {}
    /\ minted = [i \in 1..Len(Servers) |-> 0]
    /\ pool = [i \in 1..Len(Servers) |-> NoConns]
    /\ calls = [worker |-> [p \in 1..MaxCalls |-> NoRequest], last |-> NoCall]

InitBase == InitPipeline /\ life = Started

Init == InitBase /\ codec = NoCodec

\* the clock advances; Redis drops the keys whose TTL has run out
Tick(d) ==
    /\ ticks < MaxTicks
    /\ ctx.phase = "idle"
    /\ now' = now + d
    /\ ticks' = ticks + 1
    /\ store' = Purge(store, now')
    /\ window' = CloseWindows(window, limit, now')
    /\ UNCHANGED <<limit, pool, pipeVars, calls, codec, life>>

\* a listener accepts a request and gin starts its handler chain
Accept(srv, route, client, cookies) ==
    /\ ctx.phase = "idle"
    /\ nreq < MaxRequests
    /\ ctx' = NewContext(srv, route[1], route[2], client, cookies)
    /\ nreq' = nreq + 1
    /\ UNCHANGED <<clockVars, limit, pool, storeVars, upstream, jar, issuer,
                   refused, minted, calls, codec, life>>

\* the handlers that touch nothing but their own context
LocalHandlers ==
    {"Recovery", "Logger", "RequestID", "SecurityHeaders", "CORS", "Gzip"}

\* where RequestIDMiddleware stands in the chain
RequestIDIndex ==
    CHOOSE i \in 1..Len(Middlewares) : Middlewares[i] = "RequestID"

\* time.Now().UnixNano() when the clock stands at t milliseconds: the
\* decimal digits of the int64
UnixNano(t) ==
    [i \in 1..Len(FormatNat(t)) |-> DigitVal(FormatNat(t)[i])]
        \o <<0, 0, 0, 0, 0, 0>>

\* generateRequestID: strconv.FormatInt(time.Now().UnixNano(), 36)
generateRequestID(t) == FormatInt36(UnixNano(t))

\* RequestIDMiddleware: the id goes into the response header (and into the
\* context, where no handler of the chain reads it)
RequestIDMiddleware(c, t) == Header(c, "X-Request-ID", generateRequestID(t))

\* gin.Recovery, LoggerMiddleware (it logs after the chain has run) and
\* gzip.Gzip hand the request on; RequestIDMiddleware stamps an id
ApplyLocal(c, name) ==
    CASE name = "RequestID" -> RequestIDMiddleware(c, now)
      [] name = "SecurityHeaders" -> SecurityHeadersMiddleware(c)
      [] name = "CORS" -> CORSMiddleware(c)
      [] OTHER -> c

RECURSIVE RunLocal(_)
RunLocal(c) ==
    IF c.phase = "run" /\ Handlers(c.method, c.path)[c.index] \in LocalHandlers
    THEN RunLocal(Advance(ApplyLocal(c, Handlers(c.method, c.path)[c.index])))
    ELSE c

\* the context runs its handlers, in chain order, up to the first one that
\* reads the clock, the store or the network
Local ==
    /\ Current \in LocalHandlers
    /\ ctx' = RunLocal(ctx)
    /\ UNCHANGED <<clockVars, limit, pool, storeVars, nreq, upstream, jar, issuer,
                   refused, minted, calls, codec, life>>

\* whether the request carries a pair some listener's secret signs
Signed(c, serverConfig) ==
    LET tok == Cookie(c, ValidationTokenCookie)
        exp == Cookie(c, ValidationExpirationCookie)
    IN  /\ ~tok.err /\ ~exp.err
        /\ ParseInt(exp.val).ok
        /\ tok.val = encryptToken(exp.val, serverConfig.SecretKey)

\* the gate handles the request; refused keeps the signed pairs it turns
\* away
Gate ==
    /\ Current = "CheckVerification"
    /\ LET c == CheckVerification([ctx EXCEPT !.gateNow = now],
                                  ServerConfigOf(ctx.srv), now)
       IN  /\ ctx' = Advance(c)
           /\ refused' = IF c.aborted /\ Signed(ctx, Servers[ctx.srv])
                         THEN refused \cup {<<ctx.srv, ctx.cookies>>}
                         ELSE refused
    /\ UNCHANGED <<clockVars, limit, pool, storeVars, nreq, upstream, jar, issuer,
                   minted, calls, codec, life>>

\* the gate handles the request, and minted keeps the expiration of the
\* pair it signs
GateSigning ==
    /\ Current = "CheckVerification"
    /\ LET c == CheckVerification([ctx EXCEPT !.gateNow = now],
                                  ServerConfigOf(ctx.srv), now)
       IN  /\ ctx' = Advance(c)
           /\ refused' = IF c.aborted /\ Signed(ctx, Servers[ctx.srv])
                         THEN refused \cup {<<ctx.srv, ctx.cookies>>}
                         ELSE refused
           /\ minted' = IF c.setCookies = <<>> THEN minted
                        ELSE [minted EXCEPT ![ctx.srv] = ParseInt(
                                ApplySetCookies(NoCookies, c.setCookies)
                                  .expiration.value).val]
    /\ UNCHANGED <<clockVars, limit, pool, storeVars, nreq, upstream, jar, issuer,
                   calls, codec, life>>

RateLimit(outcome) ==
    /\ Current = "RateLimit"
    /\ LET r == RateLimitMiddleware(ctx, limit, store, now, outcome)
       IN  /\ ctx' = Advance(r.ctx)
           /\ store' = r.store
           /\ window' = Observe(window, ctx, limit, now, outcome, r)
    /\ UNCHANGED <<clockVars, limit, pool, nreq, upstream, jar, issuer, refused, minted,
                   calls, codec, life>>

HealthCheck ==
    /\ Current = "HealthCheck"
    /\ ctx' = Advance(HealthCheckHandler(ctx))
    /\ UNCHANGED <<clockVars, limit, pool, storeVars, nreq, upstream, jar, issuer,
                   refused, minted, calls, codec, life>>

Status(reachable) ==
    /\ Current = "Status"
    /\ ctx' = Advance(StatusHandler(ctx, reachable))
    /\ UNCHANGED <<clockVars, limit, pool, storeVars, nreq, upstream, jar, issuer,
                   refused, minted, calls, codec, life>>

\* the proxy handler runs; when the upstream answers, its response is one
\* of UpstreamResponses
Proxy(reachable) ==
    /\ Current = "Proxy"
    /\ \E resp \in UpstreamResponses :
          /\ ctx' = Advance(ProxyHandler(ctx, reachable, resp))
          /\ upstream' = IF ProxyHandler(ctx, reachable, resp).forwarded
                         THEN [upstream EXCEPT ![ctx.srv] = @ + 1]
                         ELSE upstream
    /\ UNCHANGED <<clockVars, limit, pool, storeVars, nreq, jar, issuer, refused, minted,
                   calls, codec, life>>

\* the response is sent; the client keeps its cookies or takes the new ones
Finish(adopt) ==
    /\ ctx.phase = "done"
    /\ jar' = IF adopt THEN ApplySetCookies(jar, ctx.setCookies) ELSE jar
    /\ issuer' = IF adopt /\ ctx.setCookies # <<>> THEN ctx.srv ELSE issuer
    /\ ctx' = NoRequest
    /\ UNCHANGED <<clockVars, limit, pool, storeVars, nreq, upstream, refused, minted,
                   calls, codec, life>>

\* the gate under every presentation of the cookies, as the clock advances
InitGate == Init /\ limit = [Count |-> 0, Window |-> 1]

\* the two listeners with different secrets
GateListeners == {1, 2}

NextGate ==
    \/ \E d \in TickSteps : Tick(d)
    \/ \E srv \in GateListeners, cookies \in Presentations(jar) :
          Accept(srv, <<"GET", "/app">>, Client("", "", <<>>, "10.0.0.1"),
                 cookies)
    \/ Local
    \/ Gate
    \/ \E outcome \in EvalOutcomes : RateLimit(outcome)
    \/ \E reachable \in BOOLEAN : Proxy(reachable)
    \/ \E adopt \in BOOLEAN : Finish(adopt)

SpecGate == InitGate /\ [][NextGate]_vars

\* the gate of one listener, with the history of what it has signed
InitSession == InitGate

NextSession ==
    \/ \E d \in TickSteps : Tick(d)
    \/ \E cookies \in Presentations(jar) :
          Accept(1, <<"GET", "/app">>, Client("", "", <<>>, "10.0.0.1"),
                 cookies)
    \/ Local
    \/ GateSigning
    \/ \E outcome \in EvalOutcomes : RateLimit(outcome)
    \/ \E reachable \in BOOLEAN : Proxy(reachable)
    \/ \E adopt \in BOOLEAN : Finish(adopt)

SpecSession == InitSession /\ [][NextSession]_vars

(***************************************************************************)
(* The token codec on its own: arguments from small sets, then mint, then  *)
(* verify.                                                                 *)
(***************************************************************************)
CodecData ==
    { <<>>, <<"0">>, <<"1">>, <<"9", "9", "9">>, <<"1", "0", "0", "0">>,
      <<"1", "0", "0", "1">>, <<"0", "1", "0", "0", "0">>, <<"-", "1">>,
      <<" ", "1">>, <<"f", "f">> }

CodecKeys == { <<>>, <<"a">>, <<"b">> }

\* what a client may send in place of token tok
Malformations(tok) ==
    { <<>>, SubSeq(tok, 1, Len(tok) - 1), tok \o <<"0">>, Tamper(tok),
      ToUpper(tok), [i \in 1..Len(tok) |-> "z"] } \ {tok}

InitCodec ==
    /\ InitBase
    /\ limit = [Count |-> 0, Window |-> 1]
    /\ codec \in [pc : {"args"}, t1 : CodecData, s1 : CodecKeys,
                  t2 : CodecData, s2 : CodecKeys]

\* mint(t2, s2)
Mint ==
    /\ codec.pc = "args"
    /\ codec' = [pc |-> "minted", t1 |-> codec.t1, s1 |-> codec.s1,
                 t2 |-> codec.t2, s2 |-> codec.s2,
                 token |-> encryptToken(codec.t2, codec.s2)]
    /\ UNCHANGED <<clockVars, limit, pool, storeVars, pipeVars, calls, life>>

\* verify(t1, token, s1), and verify of every malformation of mint(t1, s1);
\* looked: how many bytes each of these calls compared
Verify ==
    /\ codec.pc = "minted"
    /\ codec' = [pc |-> "verified", t1 |-> codec.t1, s1 |-> codec.s1,
                 t2 |-> codec.t2, s2 |-> codec.s2, token |-> codec.token,
                 ok |-> verifyToken(codec.t1, codec.token, codec.s1),
                 accepted |->
                   { m \in Malformations(encryptToken(codec.t1, codec.s1)) :
                       verifyToken(codec.t1, m, codec.s1) },
                 looked |->
                   [m \in Malformations(encryptToken(codec.t1, codec.s1))
                           \cup {codec.token} |->
                      verifyTokenRun(codec.t1, m, codec.s1).looked]]
    /\ UNCHANGED <<clockVars, limit, pool, storeVars, pipeVars, calls, life>>

NextCodec == Mint \/ Verify

SpecCodec == InitCodec /\ [][NextCodec]_vars

(***************************************************************************)
(* GetClientIP on its own: a request from a small set, then the call.      *)
(***************************************************************************)
InitIdentity ==
    /\ InitBase
    /\ limit = [Count |-> 0, Window |-> 1]
    /\ codec \in [pc : {"request"}, r : IdentityRequests]

\* logger.GetClientIP(r)
Resolve ==
    /\ codec.pc = "request"
    /\ codec' = [pc |-> "resolved", r |-> codec.r,
                 ip |-> GetClientIP(codec.r)]
    /\ UNCHANGED <<clockVars, limit, pool, storeVars, pipeVars, calls, life>>

NextIdentity == Resolve

SpecIdentity == InitIdentity /\ [][NextIdentity]_vars

(***************************************************************************)
(* The Director on its own: a request from a small set on alpha, then the  *)
(* headers the proxy sends upstream for it.                                *)
(***************************************************************************)
InitDirector == InitIdentity

\* the Director of CreateReverseProxy and ReverseProxy.ServeHTTP
Direct ==
    /\ codec.pc = "request"
    /\ LET c == NewContext(1, "GET", "/app", codec.r, NoCookies)
       IN  codec' = [pc |-> "directed", r |-> codec.r,
                     ip |-> GetClientIP(codec.r),
                     out |-> ServeHTTP(c, Director(c))]
    /\ UNCHANGED <<clockVars, limit, pool, storeVars, pipeVars, calls, life>>

NextDirector == Direct

SpecDirector == InitDirector /\ [][NextDirector]_vars

(***************************************************************************)
(* The rate limiter under concurrent requests: MaxCalls executions of      *)
(* RateLimitMiddleware share the store.                                    *)
(***************************************************************************)
\* the clients of the concurrent requests: two ways to the same identity
\* and one other identity
LimiterClients ==
    { Client("", "", <<>>, "10.0.0.1"),
      Client("10.0.0.1", "", <<>>, "10.0.0.9"),
      Client("", "", <<>>, "10.0.0.2") }

\* a request that has passed the gate enters the limiter; the workers are
\* interchangeable, so it takes the first free one
Reach(p, client) ==
    /\ calls.worker[p].phase = "idle"
    /\ \A q \in 1..(p - 1) : calls.worker[q].phase # "idle"
    /\ nreq < MaxRequests
    /\ nreq' = nreq + 1
    /\ calls' = [calls EXCEPT !.worker[p] =
         [NewContext(1, "GET", "/app", client, NoCookies)
            EXCEPT !.index = Len(Middlewares)]]
    /\ UNCHANGED <<clockVars, limit, pool, storeVars, ctx, upstream, jar, issuer,
                   refused, minted, codec, life>>

\* the handler runs: Redis executes the script as one command, or the call
\* fails; the handler then answers 429 or calls c.Next().  calls.last keeps
\* the context the handler leaves behind.
Eval(p, outcome) ==
    /\ calls.worker[p].phase = "run"
    /\ LET c == calls.worker[p]
           k == RateKey(GetClientIP(c.client))
           r == RateLimitMiddleware(c, limit, store, now, outcome)
           w == Observe(window, c, limit, now, outcome, r)
       IN  /\ store' = r.store
           /\ window' = w
           /\ calls' = [worker |-> [calls.worker EXCEPT ![p] = NoRequest],
                        last |-> [c |-> r.ctx, outcome |-> outcome,
                                  rank |-> Len(w[k].seen),
                                  clean |-> ~w[k].failures]]
    /\ UNCHANGED <<clockVars, limit, pool, pipeVars, codec, life>>

NextLimiter ==
    \/ \E d \in TickSteps : Tick(d)
    \/ \E p \in 1..MaxCalls, client \in LimiterClients : Reach(p, client)
    \/ \E p \in 1..MaxCalls, outcome \in EvalOutcomes : Eval(p, outcome)

SpecLimiter == Init /\ [][NextLimiter]_vars

(***************************************************************************)
(* The limiter of a Manager whose construction has pinged the store.       *)
(***************************************************************************)
\* redisManager.Ping() in NewManager: nil, or the error of a store that
\* cannot be reached
PingResults == {"ok", "refused"}

\* NewManager: the result of the ping chooses the line that is logged; the
\* Manager holds the same RedisManager either way
NewManager(ping) ==
    [pc |-> "constructed", ping |-> ping,
     log |-> IF ping = "ok"
             THEN "Redis connection established successfully"
             ELSE "Redis connection failed. Rate limiting will be disabled."]

InitPing == InitBase /\ codec \in {NewManager(ping) : ping \in PingResults}

\* the requests that reach the limiter afterwards; each Eval finds the store
\* reachable or not, whatever the ping found
NextPing ==
    \/ \E d \in TickSteps : Tick(d)
    \/ \E p \in 1..MaxCalls, client \in LimiterClients : Reach(p, client)
    \/ \E p \in 1..MaxCalls, outcome \in EvalOutcomes : Eval(p, outcome)

SpecPing == InitPing /\ [][NextPing]_vars

(***************************************************************************)
(* RequestIDMiddleware under concurrent requests: MaxCalls handler chains, *)
(* on either listener, reach the middleware and read the clock.            *)
(***************************************************************************)
\* a request on listener srv has run the handlers before RequestID
Enter(p, srv) ==
    /\ calls.worker[p].phase = "idle"
    /\ nreq < MaxRequests
    /\ nreq' = nreq + 1
    /\ calls' = [calls EXCEPT !.worker[p] =
         [NewContext(srv, "GET", "/app", Client("", "", <<>>, "10.0.0.1"),
                     NoCookies)
            EXCEPT !.index = RequestIDIndex]]
    /\ UNCHANGED <<clockVars, limit, pool, storeVars, ctx, upstream, jar, issuer,
                   refused, minted, codec, life>>

\* RequestIDMiddleware runs in the chain of worker p and calls c.Next()
Stamp(p) ==
    /\ calls.worker[p].phase = "run"
    /\ calls.worker[p].index = RequestIDIndex
    /\ calls' = [calls EXCEPT !.worker[p] =
                    Advance(RequestIDMiddleware(@, now))]
    /\ UNCHANGED <<clockVars, limit, pool, storeVars, pipeVars, codec, life>>

\* the response of worker p is written and the next request may come
Leave(p) ==
    /\ calls.worker[p].phase = "run"
    /\ calls.worker[p].index > RequestIDIndex
    /\ calls' = [calls EXCEPT !.worker[p] = NoRequest]
    /\ UNCHANGED <<clockVars, limit, pool, storeVars, pipeVars, codec, life>>

InitRequestID == Init

NextRequestID ==
    \/ \E d \in TickSteps : Tick(d)
    \/ \E p \in 1..MaxCalls, srv \in 1..Len(Servers) : Enter(p, srv)
    \/ \E p \in 1..MaxCalls : Stamp(p)
    \/ \E p \in 1..MaxCalls : Leave(p)

SpecRequestID == InitRequestID /\ [][NextRequestID]_vars

(***************************************************************************)
(* IncrementCounter: MaxCalls callers send their pipelines to the store,   *)
(* which executes the commands of all its clients one at a time.           *)
(***************************************************************************)
\* the keys the callers count on
CounterKeys == { RateKey("10.0.0.1"), RateKey("10.0.0.2") }

\* the expirations the callers ask for, in seconds
CounterExpirations == {1, 2}

\* rm.client.Pipeline(), pipe.Incr, pipe.Expire: the commands queued for one
\* Exec, sent without MULTI/EXEC
Pipeline(key, expiration) ==
    << [cmd |-> "INCR", key |-> key, seconds |-> 0],
       [cmd |-> "EXPIRE", key |-> key, seconds |-> expiration] >>

\* a caller that is not inside IncrementCounter
NoPipeline == [at |-> "idle", queue |-> <<>>, val |-> 0, err |-> FALSE]

\* the store executes one command at clock value t
Execute(st, command, t) ==
    IF command.cmd = "INCR" THEN INCR(st, command.key)
    ELSE EXPIRE(st, command.key, command.seconds, t)

\* IncrementCounter up to pipe.Exec: the pipeline is on its way
IncrementCounter(p, key, expiration) ==
    /\ codec.call[p].at = "idle"
    /\ nreq < MaxRequests
    /\ nreq' = nreq + 1
    /\ codec' = [codec EXCEPT !.call[p] =
                    [at |-> "exec", queue |-> Pipeline(key, expiration),
                     val |-> 0, err |-> FALSE]]
    /\ UNCHANGED <<clockVars, limit, pool, storeVars, ctx, upstream, jar, issuer,
                   refused, minted, calls, life>>

\* the store executes the next command of caller p's pipeline; the commands
\* of other clients may have run since the one before
Serve(p) ==
    /\ codec.call[p].at = "exec"
    /\ codec.call[p].queue # <<>>
    /\ store' = Execute(store, Head(codec.call[p].queue), now)
    /\ codec' = [codec EXCEPT
                   !.call[p].queue = Tail(@),
                   !.call[p].val =
                      IF Head(codec.call[p].queue).cmd = "INCR"
                      THEN store'[Head(codec.call[p].queue).key].count
                      ELSE @]
    /\ UNCHANGED <<clockVars, limit, pool, window, pipeVars, calls, life>>

\* pipe.Exec returns the replies: IncrementCounter returns incrCmd.Val()
ExecReturn(p) ==
    /\ codec.call[p].at = "exec"
    /\ codec.call[p].queue = <<>>
    /\ codec' = [codec EXCEPT !.call[p] = [NoPipeline EXCEPT !.val =
                                              codec.call[p].val]]
    /\ UNCHANGED <<clockVars, limit, pool, storeVars, pipeVars, calls, life>>

\* pipe.Exec returns an error (the connection breaks, or the 1 s of the
\* context run out and the connection is dropped): the commands the store
\* has not executed yet never run, and IncrementCounter returns 0, err
ExecFail(p) ==
    /\ codec.call[p].at = "exec"
    /\ codec' = [codec EXCEPT !.call[p] = [NoPipeline EXCEPT !.err = TRUE]]
    /\ UNCHANGED <<clockVars, limit, pool, storeVars, pipeVars, calls, life>>

InitCounter ==
    /\ InitBase
    /\ limit = [Count |-> 0, Window |-> 1]
    /\ codec = [pc |-> "pipeline", call |-> [p \in 1..MaxCalls |-> NoPipeline]]

NextCounter ==
    \/ \E d \in TickSteps : Tick(d)
    \/ \E p \in 1..MaxCalls, key \in CounterKeys,
          expiration \in CounterExpirations :
             IncrementCounter(p, key, expiration)
    \/ \E p \in 1..MaxCalls : Serve(p)
    \/ \E p \in 1..MaxCalls : ExecReturn(p)
    \/ \E p \in 1..MaxCalls : ExecFail(p)

SpecCounter == InitCounter /\ [][NextCounter]_vars

(***************************************************************************)
(* Every route of a listener: requests with and without the cookies of an  *)
(* earlier challenge, under each limiter configuration.                    *)
(***************************************************************************)
PipelineClients ==
    { Client("", "", <<>>, "10.0.0.1") }

Next ==
    \/ \E d \in TickSteps : Tick(d)
    \/ \E route \in Routes, client \in PipelineClients,
          cookies \in {NoCookies, jar} : Accept(1, route, client, cookies)
    \/ Local
    \/ Gate
    \/ \E outcome \in EvalOutcomes : RateLimit(outcome)
    \/ HealthCheck
    \/ \E reachable \in BOOLEAN : Status(reachable)
    \/ \E reachable \in BOOLEAN : Proxy(reachable)
    \/ \E adopt \in BOOLEAN : Finish(adopt)

Spec == Init /\ [][Next]_vars

(***************************************************************************)
(* The proxied paths of every listener, for each way a client may be       *)
(* identified and each method.                                             *)
(***************************************************************************)
ProxiedRoutes == { r \in Routes : RouteHandler(r[1], r[2]) = "Proxy" }

NextProxy ==
    \/ \E srv \in 1..Len(Servers), route \in ProxiedRoutes, client \in Clients,
          cookies \in {NoCookies, jar} : Accept(srv, route, client, cookies)
    \/ Local
    \/ Gate
    \/ \E outcome \in EvalOutcomes : RateLimit(outcome)
    \/ \E reachable \in BOOLEAN : Proxy(reachable)
    \/ \E adopt \in BOOLEAN : Finish(adopt)

SpecProxy == Init /\ [][NextProxy]_vars

(***************************************************************************)
(* Preflights: OPTIONS requests on the proxied path and on the paths that  *)
(* have a GET route, with and without the cookies of an earlier challenge. *)
(***************************************************************************)
PreflightRoutes ==
    { <<"OPTIONS", "/app">>, <<"OPTIONS", "/health">>,
      <<"OPTIONS", "/status">>, <<"GET", "/app">> }

InitPreflight == Init

NextPreflight ==
    \/ \E srv \in 1..Len(Servers), route \in PreflightRoutes,
          cookies \in {NoCookies, jar} :
            Accept(srv, route, Client("", "", <<>>, "10.0.0.1"), cookies)
    \/ Local
    \/ Gate
    \/ \E outcome \in EvalOutcomes : RateLimit(outcome)
    \/ \E reachable \in BOOLEAN : Proxy(reachable)
    \/ \E adopt \in BOOLEAN : Finish(adopt)

SpecPreflight == InitPreflight /\ [][NextPreflight]_vars

(***************************************************************************)
(* The scope of the limiter: the listeners that take the same cookies,     *)
(* clients that reach them from two socket addresses with and without a    *)
(* CF-Connecting-IP header.                                                *)
(***************************************************************************)
ScopeClients ==
    { Client("", "", <<>>, "10.0.0.1"),
      Client("10.0.0.1", "", <<>>, "10.0.0.2"),
      Client("10.0.0.2", "", <<>>, "10.0.0.2"),
      Client("10.0.0.2", "", <<>>, "10.0.0.1") }

\* alpha and gamma sign with the same secret
ScopeListeners == {1, 3}

InitScope == Init

NextScope ==
    \/ \E srv \in ScopeListeners, client \in ScopeClients,
          cookies \in {NoCookies, jar} :
            Accept(srv, <<"GET", "/app">>, client, cookies)
    \/ Local
    \/ Gate
    \/ \E outcome \in EvalOutcomes : RateLimit(outcome)
    \/ \E reachable \in BOOLEAN : Proxy(reachable)
    \/ \E adopt \in BOOLEAN : Finish(adopt)

SpecScope == InitScope /\ [][NextScope]_vars

(***************************************************************************)
(* The transports (CreateReverseProxy): each listener has its own          *)
(* http.Transport; its requests to the upstream run concurrently.          *)
(***************************************************************************)
\* requests one transport carries or queues at a time
MaxStreams == 5

\* a transport whose limit holds for the idle connections only
TransportIdleOnly(serverConfig) ==
    [MaxIdleConns |-> 100,
     MaxIdleConnsPerHost |->
        IF serverConfig.CtnMax > 0 THEN serverConfig.CtnMax ELSE 2,
     MaxConnsPerHost |-> 0]

\* the http.Transport of CreateReverseProxy: MaxIdleConns 100; with
\* CtnMax > 0 MaxIdleConnsPerHost and MaxConnsPerHost are CtnMax, otherwise
\* they keep their zero values (2 idle connections per host, no limit on
\* the connections per host)
Transport(serverConfig) ==
    [MaxIdleConns |-> 100,
     MaxIdleConnsPerHost |->
        IF serverConfig.CtnMax > 0 THEN serverConfig.CtnMax ELSE 2,
     MaxConnsPerHost |->
        IF serverConfig.CtnMax > 0 THEN serverConfig.CtnMax ELSE 0]

\* the connections transport i has open to its upstream host: dialling or
\* carrying a request (active), and idle
Conns(i) == pool[i].active + pool[i].idle

\* proxy.ServeHTTP hands a request to the transport: it takes an idle
\* connection; or dials one when MaxConnsPerHost allows; or waits
RoundTrip(i) ==
    /\ ~CreateReverseProxy(Servers[i]).err
    /\ pool[i].active + pool[i].waiting < MaxStreams
    /\ LET t == Transport(Servers[i])
       IN  pool' = [pool EXCEPT ![i] =
              IF @.idle > 0
                  THEN [@ EXCEPT !.idle = @ - 1, !.active = @ + 1]
              ELSE IF t.MaxConnsPerHost = 0 \/ Conns(i) < t.MaxConnsPerHost
                  THEN [@ EXCEPT !.active = @ + 1]
              ELSE [@ EXCEPT !.waiting = @ + 1]]
    /\ UNCHANGED <<clockVars, limit, storeVars, pipeVars, calls, codec, life>>

\* a response has been read to its end: the connection, or when it is not
\* kept a new one dialled in its place, goes to a waiting request; without
\* one it becomes idle when it is kept and MaxIdleConnsPerHost and
\* MaxIdleConns allow, and is closed otherwise
ResponseEnd(i, keep) ==
    /\ pool[i].active > 0
    /\ LET t == Transport(Servers[i])
       IN  pool' = [pool EXCEPT ![i] =
              IF @.waiting > 0
                  THEN [@ EXCEPT !.waiting = @ - 1]
              ELSE IF /\ keep
                      /\ @.idle < t.MaxIdleConnsPerHost
                      /\ @.idle < t.MaxIdleConns
                  THEN [@ EXCEPT !.active = @ - 1, !.idle = @ + 1]
              ELSE [@ EXCEPT !.active = @ - 1]]
    /\ UNCHANGED <<clockVars, limit, storeVars, pipeVars, calls, codec, life>>

\* an idle connection is closed: IdleConnTimeout, or the upstream closes it
IdleClose(i) ==
    /\ pool[i].idle > 0
    /\ pool' = [pool EXCEPT ![i].idle = @ - 1]
    /\ UNCHANGED <<clockVars, limit, storeVars, pipeVars, calls, codec, life>>

\* the client of a waiting request goes away: its context is cancelled
CancelWait(i) ==
    /\ pool[i].waiting > 0
    /\ pool' = [pool EXCEPT ![i].waiting = @ - 1]
    /\ UNCHANGED <<clockVars, limit, storeVars, pipeVars, calls, codec, life>>

InitTransport == Init /\ limit = [Count |-> 0, Window |-> 1]

NextTransport ==
    \/ \E i \in 1..Len(Servers) : RoundTrip(i)
    \/ \E i \in 1..Len(Servers), keep \in BOOLEAN : ResponseEnd(i, keep)
    \/ \E i \in 1..Len(Servers) : IdleClose(i)
    \/ \E i \in 1..Len(Servers) : CancelWait(i)

SpecTransport == InitTransport /\ [][NextTransport]_vars

(***************************************************************************)
(* The life of the process (server package: Start, the serve goroutines,   *)
(* WaitForShutdown; main).  Requests are counted per listener: those       *)
(* accepted before the shutdown signal and those accepted after it.        *)
(***************************************************************************)
\* requests the process serves at a time
MaxInflight == 2

\* how far the 30 s timer advances in one step, in seconds
GraceStep == 15

Listeners == 1..Len(Servers)

\* the serve goroutine of listener i is inside its accept loop
Serving(i) == life.serve[i] \in {"tls", "plain"}

InFlight(i) == life.before[i] + life.after[i]

RECURSIVE InFlightUpTo(_)
InFlightUpTo(n) == IF n = 0 THEN 0 ELSE InFlight(n) + InFlightUpTo(n - 1)

\* the requests in flight on all listeners
TotalInFlight == InFlightUpTo(Len(life.before))

\* how many Shutdown goroutines the loop over m.servers creates for
\* listener i: one for each time it stands in the slice
RECURSIVE Occurrences(_, _)
Occurrences(servers, i) ==
    IF Len(servers) = 0 THEN 0
    ELSE (IF servers[1] = i THEN 1 ELSE 0) + Occurrences(Tail(servers), i)

\* a listener that goes on accepting while Shutdown waits for its requests
ArriveUntilReturned(i) ==
    /\ life.pc \notin {"exited", "fatal"}
    /\ Serving(i) /\ life.shut[i] # "done"
    /\ TotalInFlight < MaxInflight
    /\ life' = IF life.signal \/ life.pc = "select"
               THEN [life EXCEPT !.after[i] = @ + 1]
               ELSE [life EXCEPT !.before[i] = @ + 1]
    /\ UNCHANGED <<clockVars, limit, pool, storeVars, pipeVars, calls, codec>>

\* the listener accepts a connection and starts serving a request; it does
\* so until Shutdown has closed it, also while the goroutine that is to
\* call Shutdown has not run yet
Arrive(i) ==
    /\ life.pc \notin {"exited", "fatal"}
    /\ Serving(i) /\ life.shut[i] \in {"none", "start"}
    /\ TotalInFlight < MaxInflight
    /\ life' = IF life.signal \/ life.pc = "select"
               THEN [life EXCEPT !.after[i] = @ + 1]
               ELSE [life EXCEPT !.before[i] = @ + 1]
    /\ UNCHANGED <<clockVars, limit, pool, storeVars, pipeVars, calls, codec>>

\* a request in flight gets its whole response
Complete(i, early) ==
    /\ life.pc \notin {"exited", "fatal"}
    /\ IF early
       THEN /\ life.before[i] > 0
            /\ life' = [life EXCEPT !.before[i] = @ - 1]
       ELSE /\ life.after[i] > 0
            /\ life' = [life EXCEPT !.after[i] = @ - 1]
    /\ UNCHANGED <<clockVars, limit, pool, storeVars, pipeVars, calls, codec>>

\* SIGINT or SIGTERM: once signal.Notify has run it is put on the shutdown
\* channel (buffered, capacity 1), whether or not main already waits on it
Signal ==
    /\ life.notify /\ life.pc \in {"loop", "wait"} /\ ~life.signal
    /\ life' = [life EXCEPT !.signal = TRUE]
    /\ UNCHANGED <<clockVars, limit, pool, storeVars, pipeVars, calls, codec>>

\* WaitForShutdown from <-m.shutdown to the select: the 30 s context, one
\* goroutine per server of m.servers calling Shutdown, one goroutine waiting
\* on wg
Receive ==
    /\ life.pc = "wait" /\ life.signal
    /\ life' = [life EXCEPT !.pc = "select", !.signal = FALSE,
                            !.elapsed = 0,
                            !.stops = [i \in DOMAIN life.shut |->
                                        Occurrences(life.servers, i)],
                            !.shut = [i \in DOMAIN life.shut |->
                                       IF Occurrences(life.servers, i) > 0
                                       THEN "start" ELSE "none"],
                            !.waiter = "waiting"]
    /\ UNCHANGED <<clockVars, limit, pool, storeVars, pipeVars, calls, codec>>

\* the timer of the context runs
Grace ==
    /\ life.pc = "select"
    /\ life.elapsed < GraceTimeout
    /\ life' = [life EXCEPT !.elapsed = @ + GraceStep]
    /\ UNCHANGED <<clockVars, limit, pool, storeVars, pipeVars, calls, codec>>

\* srv.Shutdown(ctx), first part: the listeners are closed
ShutdownClose(i) ==
    /\ life.pc = "select"
    /\ life.shut[i] = "start"
    /\ life' = [life EXCEPT !.shut[i] = "draining"]
    /\ UNCHANGED <<clockVars, limit, pool, storeVars, pipeVars, calls, codec>>

\* srv.Shutdown(ctx), second part: it returns once no connection is active,
\* or with ctx.Err() once the context is done
ShutdownReturn(i) ==
    /\ life.pc = "select"
    /\ life.shut[i] = "draining"
    /\ InFlight(i) = 0 \/ life.elapsed >= GraceTimeout
    /\ life' = [life EXCEPT !.shut[i] = "done"]
    /\ UNCHANGED <<clockVars, limit, pool, storeVars, pipeVars, calls, codec>>

\* a serve goroutine that calls ListenAndServe again when it has returned
ServeReturnRetry(i) ==
    /\ life.pc = "select"
    /\ Serving(i)
    /\ life.shut[i] \in {"draining", "done"}
    /\ life' = [life EXCEPT !.serve[i] = "created"]
    /\ UNCHANGED <<clockVars, limit, pool, storeVars, pipeVars, calls, codec>>

\* the serve goroutine: ListenAndServe returns http.ErrServerClosed as soon
\* as Shutdown has closed the listeners; the deferred m.wg.Done() runs
ServeReturn(i) ==
    /\ life.pc = "select"
    /\ Serving(i)
    /\ life.shut[i] \in {"draining", "done"}
    /\ life' = [life EXCEPT !.serve[i] = "returned", !.wg = @ - 1]
    /\ UNCHANGED <<clockVars, limit, pool, storeVars, pipeVars, calls, codec>>

\* the waiting goroutine: m.wg.Wait() returns, close(done)
WaitReturn ==
    /\ life.pc = "select"
    /\ life.waiter = "waiting"
    /\ life.wg = 0
    /\ life' = [life EXCEPT !.waiter = "closed", !.done = TRUE]
    /\ UNCHANGED <<clockVars, limit, pool, storeVars, pipeVars, calls, codec>>

\* a serve loop whose error makes the manager begin to shut down
ServeFailFatal(i) ==
    /\ life.pc = "wait"
    /\ Serving(i) /\ life.shut[i] = "none"
    /\ life' = [life EXCEPT !.serve[i] = "failed", !.wg = @ - 1,
                            !.logged = @ \cup {i}, !.signal = TRUE]
    /\ UNCHANGED <<clockVars, limit, pool, storeVars, pipeVars, calls, codec>>

\* the serve goroutine: ListenAndServe returns an error other than
\* http.ErrServerClosed (the accept loop broke); the goroutine logs it and
\* ends, the deferred m.wg.Done() runs.  Requests already accepted go on.
ServeFail(i) ==
    /\ life.pc \notin {"exited", "fatal"}
    /\ Serving(i) /\ life.shut[i] = "none"
    /\ life' = [life EXCEPT !.serve[i] = "failed", !.wg = @ - 1,
                            !.logged = @ \cup {i}]
    /\ UNCHANGED <<clockVars, limit, pool, storeVars, pipeVars, calls, codec>>

\* a select without the case <-ctx.Done()
SelectWithoutTimeout == FALSE /\ UNCHANGED vars

\* the select takes case <-done; cleanup; WaitForShutdown returns and main
\* with it, which ends the process and every request still in flight
SelectDone ==
    /\ life.pc = "select"
    /\ life.done
    /\ life' = [life EXCEPT !.pc = "exited", !.reason = "done",
                            !.released = @ + 1]
    /\ UNCHANGED <<clockVars, limit, pool, storeVars, pipeVars, calls, codec>>

\* the select takes case <-ctx.Done(); cleanup; WaitForShutdown returns
SelectTimeout ==
    /\ life.pc = "select"
    /\ life.elapsed >= GraceTimeout
    /\ life' = [life EXCEPT !.pc = "exited", !.reason = "timeout",
                            !.released = @ + 1]
    /\ UNCHANGED <<clockVars, limit, pool, storeVars, pipeVars, calls, codec>>

InitShutdown == Init /\ limit = [Count |-> 0, Window |-> 1]

NextShutdown ==
    \/ \E i \in Listeners : Arrive(i)
    \/ \E i \in Listeners, early \in BOOLEAN : Complete(i, early)
    \/ Signal
    \/ Receive
    \/ Grace
    \/ \E i \in Listeners : ShutdownClose(i)
    \/ \E i \in Listeners : ShutdownReturn(i)
    \/ \E i \in Listeners : ServeReturn(i)
    \/ \E i \in Listeners : ServeFail(i)
    \/ WaitReturn
    \/ SelectDone
    \/ SelectTimeout

SpecShutdown == InitShutdown /\ [][NextShutdown]_vars

\* main and the runtime's timer always get to run; nothing is assumed of the
\* listeners and their goroutines
SpecShutdownFair ==
    /\ SpecShutdown
    /\ WF_vars(Receive) /\ WF_vars(Grace) /\ WF_vars(SelectTimeout)

(***************************************************************************)
(* Startup (main, Manager.Start, startServer): the configuration is a      *)
(* list of server specs, each plain, HTTPS with a loadable pair, or HTTPS  *)
(* with a pair tls.LoadX509KeyPair refuses.                                *)
(***************************************************************************)
\* the longest list of server specs
MaxSpecs == 3

SpecKinds ==
    { [HTTPS |-> FALSE, PairOK |-> TRUE], [HTTPS |-> TRUE, PairOK |-> TRUE],
      [HTTPS |-> TRUE, PairOK |-> FALSE] }

StartConfigs == UNION { [1..n -> SpecKinds] : n \in 0..MaxSpecs }

\* the process when main calls serverManager.Start()
Boot(cfg) ==
    [pc |-> "main", config |-> cfg, i |-> 1, notify |-> FALSE,
     servers |-> <<>>, wg |-> 0,
     serve |-> [k \in 1..MaxSpecs |-> "none"],
     accepted |-> [k \in 1..MaxSpecs |-> "none"],
     logged |-> {}, signal |-> FALSE,
     shut |-> [k \in 1..MaxSpecs |-> "none"],
     stops |-> [k \in 1..MaxSpecs |-> 0],
     waiter |-> "none", done |-> FALSE, elapsed |-> 0,
     before |-> [k \in 1..MaxSpecs |-> 0],
     after |-> [k \in 1..MaxSpecs |-> 0],
     reason |-> "none", released |-> 0]

\* a Start that installs the signal handler before it looks at the specs
StartNotifyFirst ==
    /\ life.pc = "main"
    /\ life' = [life EXCEPT !.notify = TRUE,
                            !.pc = IF Len(life.config) = 0 THEN "fatal"
                                   ELSE "loop"]
    /\ UNCHANGED <<clockVars, limit, pool, storeVars, pipeVars, calls, codec>>

\* Start up to its loop: without specs it returns an error and main ends
\* the process with log.Fatalf; otherwise signal.Notify
Start ==
    /\ life.pc = "main"
    /\ life' = IF Len(life.config) = 0
               THEN [life EXCEPT !.pc = "fatal"]
               ELSE [life EXCEPT !.pc = "loop", !.notify = TRUE]
    /\ UNCHANGED <<clockVars, limit, pool, storeVars, pipeVars, calls, codec>>

\* one turn of the loop of Start: startServer for spec i.  A pair that does
\* not load makes startServer and Start return the error, and main ends the
\* process; otherwise wg.Add(1), the serve goroutine is created and the
\* server is appended to m.servers.
startServer ==
    /\ life.pc = "loop"
    /\ life.i <= Len(life.config)
    /\ LET serverConfig == life.config[life.i]
       IN  life' = IF serverConfig.HTTPS /\ ~serverConfig.PairOK
                   THEN [life EXCEPT !.pc = "fatal"]
                   ELSE [life EXCEPT !.wg = @ + 1,
                                     !.serve[life.i] = "created",
                                     !.servers = Append(@, life.i),
                                     !.i = @ + 1]
    /\ UNCHANGED <<clockVars, limit, pool, storeVars, pipeVars, calls, codec>>

\* Start returns nil and main calls WaitForShutdown
StartReturn ==
    /\ life.pc = "loop"
    /\ life.i > Len(life.config)
    /\ life' = [life EXCEPT !.pc = "wait"]
    /\ UNCHANGED <<clockVars, limit, pool, storeVars, pipeVars, calls, codec>>

\* a serve goroutine that always calls ListenAndServe
ListenPlain(k, bound) ==
    /\ life.pc # "fatal"
    /\ life.serve[k] = "created"
    /\ life' = [life EXCEPT !.serve[k] = IF bound THEN "plain" ELSE "failed"]
    /\ UNCHANGED <<clockVars, limit, pool, storeVars, pipeVars, calls, codec>>

\* a serve goroutine that ends the process when its port does not bind
ListenOrExit(k, bound) ==
    /\ life.pc \notin {"fatal", "exited"}
    /\ life.serve[k] = "created"
    /\ life' = IF life.shut[k] \in {"draining", "done"}
               THEN [life EXCEPT !.serve[k] = "returned", !.wg = @ - 1]
               ELSE IF bound
               THEN [life EXCEPT !.serve[k] =
                       IF life.config[k].HTTPS THEN "tls" ELSE "plain"]
               ELSE [life EXCEPT !.serve[k] = "failed", !.wg = @ - 1,
                                 !.logged = @ \cup {k}, !.pc = "fatal"]
    /\ UNCHANGED <<clockVars, limit, pool, storeVars, pipeVars, calls, codec>>

\* the serve goroutine of spec k: ListenAndServeTLS when HTTPS is enabled,
\* ListenAndServe otherwise.  Once Shutdown has been called on the server
\* the call returns http.ErrServerClosed without binding; otherwise the port
\* binds, or the call returns an error, which is logged; wg.Done() runs
\* when the call returns.
Listen(k, bound) ==
    /\ life.pc \notin {"fatal", "exited"}
    /\ life.serve[k] = "created"
    /\ life' = IF life.shut[k] \in {"draining", "done"}
               THEN [life EXCEPT !.serve[k] = "returned", !.wg = @ - 1]
               ELSE IF bound
               THEN [life EXCEPT !.serve[k] =
                       IF life.config[k].HTTPS THEN "tls" ELSE "plain"]
               ELSE [life EXCEPT !.serve[k] = "failed", !.wg = @ - 1,
                                 !.logged = @ \cup {k}]
    /\ UNCHANGED <<clockVars, limit, pool, storeVars, pipeVars, calls, codec>>

\* a bound listener accepts a connection: TLS or plaintext, as it serves
Connect(k) ==
    /\ life.pc # "fatal"
    /\ life.serve[k] \in {"tls", "plain"}
    /\ life.accepted[k] = "none"
    /\ life' = [life EXCEPT !.accepted[k] = life.serve[k]]
    /\ UNCHANGED <<clockVars, limit, pool, storeVars, pipeVars, calls, codec>>

InitStart ==
    /\ InitPipeline
    /\ limit = [Count |-> 0, Window |-> 1]
    /\ codec = NoCodec
    /\ life \in { Boot(cfg) : cfg \in StartConfigs }

NextStart ==
    \/ Start
    \/ startServer
    \/ StartReturn
    \/ \E k \in 1..MaxSpecs, bound \in BOOLEAN : Listen(k, bound)
    \/ \E k \in 1..MaxSpecs : Connect(k)

SpecStart == InitStart /\ [][NextStart]_vars

(***************************************************************************)
(* The whole life of the listeners: startup, serving, shutdown.            *)
(***************************************************************************)
\* the longest list of server specs whose whole life is followed
MaxLife == 2

InitLife ==
    /\ InitStart
    /\ Len(life.config) <= MaxLife

NextLife ==
    \/ Start
    \/ startServer
    \/ StartReturn
    \/ \E k \in 1..MaxSpecs, bound \in BOOLEAN : Listen(k, bound)
    \/ \E k \in 1..MaxSpecs : Arrive(k)
    \/ \E k \in 1..MaxSpecs, early \in BOOLEAN : Complete(k, early)
    \/ \E k \in 1..MaxSpecs : ServeFail(k)
    \/ Signal
    \/ Receive
    \/ \E k \in 1..MaxSpecs : ShutdownClose(k)
    \/ \E k \in 1..MaxSpecs : ShutdownReturn(k)
    \/ \E k \in 1..MaxSpecs : ServeReturn(k)
    \/ WaitReturn
    \/ SelectDone

SpecLife == InitLife /\ [][NextLife]_vars

(***************************************************************************)
(* Properties of the verification gate (checked under SpecGate; C22 under  *)
(* SpecSession).                                                           *)
(***************************************************************************)
HasRun(c, name) == \E i \in 1..Len(c.ran) : c.ran[i] = name

LastRun(c) == IF c.ran = <<>> THEN "none" ELSE c.ran[Len(c.ran)]

GateRan == HasRun(ctx, "CheckVerification")

\* the gate handed the request to the next handler of the chain
PassedGate ==
    /\ GateRan
    /\ Current = "RateLimit" \/ HasRun(ctx, "RateLimit")

\* the request ended at the gate with the challenge page
Challenged ==
    /\ GateRan
    /\ ctx.phase = "done"
    /\ LastRun(ctx) = "CheckVerification"
    /\ ctx.status = 200
    /\ ctx.body = verificationPage
    /\ ~ctx.forwarded

TokenValue == Cookie(ctx, ValidationTokenCookie)
ExpirationValue == Cookie(ctx, ValidationExpirationCookie)

\* the pair of the request is present, unexpired at the time the gate read
\* the clock, and signed with the listener's secret
ValidPair ==
    /\ ~TokenValue.err /\ TokenValue.val # <<>>
    /\ ~ExpirationValue.err /\ ExpirationValue.val # <<>>
    /\ ParseInt(ExpirationValue.val).ok
    /\ ctx.gateNow <= ParseInt(ExpirationValue.val).val
    /\ TokenValue.val =
         encryptToken(ExpirationValue.val, Servers[ctx.srv].SecretKey)

\* C1: the gate hands a request on exactly when both cookies are present and
\* non-empty, the expiration parses, now <= expiration and the token is the
\* HMAC of the expiration string; every other request ends at the gate with
\* the 200 challenge page and is not forwarded.
C1_GateDecision ==
    GateRan => IF ValidPair THEN PassedGate ELSE Challenged

C1_Witness ==
    /\ PassedGate /\ ValidPair /\ ctx.gateNow > 0

\* the pair of the request is correctly signed, whatever the time
SignedPair == Signed(ctx, Servers[ctx.srv])

\* C8: a correctly signed pair with expiration E passes the gate at every
\* time now <= E and is challenged again at every time now > E, and a pair
\* the gate has once turned away is never accepted afterwards.
C8_ExpiryTransition ==
    (GateRan /\ SignedPair) =>
        /\ PassedGate <=> ctx.gateNow <= ParseInt(ExpirationValue.val).val
        /\ ~PassedGate => Challenged
        /\ PassedGate => <<ctx.srv, ctx.cookies>> \notin refused

C8_Witness ==
    /\ GateRan /\ SignedPair /\ Challenged
    /\ ctx.gateNow = ParseInt(ExpirationValue.val).val + 1

\* the pair a challenge for listener srv at clock value t has to set
FreshPair(srv, t) ==
    LET exp == FormatInt(t + Servers[srv].Expired * 1000)
    IN  [token |-> SomeCookie(encryptToken(exp, Servers[srv].SecretKey)),
         expiration |-> SomeCookie(exp)]

\* C9: a request without cookies always gets the 200 challenge page with a
\* fresh pair, expiration = now + lifetime * 1000 ms and token = HMAC(secret,
\* expiration string); that pair, sent back unchanged to the same listener
\* at any time up to its expiration, passes the gate.
C9_ChallengeAndReplay ==
    /\ (GateRan /\ ctx.cookies = NoCookies) =>
          /\ Challenged
          /\ ApplySetCookies(NoCookies, ctx.setCookies)
               = FreshPair(ctx.srv, ctx.gateNow)
    /\ (/\ GateRan /\ jar.token.present /\ jar.expiration.present
        /\ ctx.cookies = jar /\ issuer = ctx.srv
        /\ ctx.gateNow <= ParseInt(jar.expiration.value).val) => PassedGate

C9_Witness ==
    /\ PassedGate /\ ctx.cookies = jar /\ issuer = ctx.srv
    /\ jar.expiration.present
    /\ ctx.gateNow = ParseInt(jar.expiration.value).val

\* the Set-Cookie header that stays in force for a cookie name
LastSetCookie(c, name) ==
    LET idx == { i \in 1..Len(c.setCookies) : c.setCookies[i].Name = name }
    IN  c.setCookies[CHOOSE i \in idx : \A j \in idx : j <= i]

\* C10: on every challenge response both cookies carry max-age = the token
\* lifetime in seconds, the token cookie is not HTTP-only and the expiration
\* cookie is HTTP-only and secure.
C10_CookieAttributes ==
    Challenged =>
        LET tok == LastSetCookie(ctx, ValidationTokenCookie)
            exp == LastSetCookie(ctx, ValidationExpirationCookie)
        IN  /\ tok.MaxAge = Servers[ctx.srv].Expired
            /\ exp.MaxAge = Servers[ctx.srv].Expired
            /\ ~tok.HttpOnly
            /\ exp.HttpOnly /\ exp.Secure

\* what the gate decides, as a function of the two cookie values, the time
\* and the secret alone
Decision(cookies, t, secret) ==
    LET tok == Cookie([NoRequest EXCEPT !.cookies = cookies],
                      ValidationTokenCookie)
        exp == Cookie([NoRequest EXCEPT !.cookies = cookies],
                      ValidationExpirationCookie)
    IN  /\ ~tok.err /\ tok.val # <<>>
        /\ ~exp.err /\ exp.val # <<>>
        /\ ParseInt(exp.val).ok
        /\ t <= ParseInt(exp.val).val
        /\ tok.val = encryptToken(exp.val, secret)

\* C22: the gate keeps no session state: whatever has happened before
\* (requests handled, pairs signed, pairs turned away, what the client
\* holds), the gate passes a request exactly when the function Decision of
\* the two cookie values, the time and the listener's secret says so; in
\* particular an unexpired pair passes although the listener has signed a
\* newer one since.
C22_Stateless ==
    GateRan =>
        /\ PassedGate <=>
              Decision(ctx.cookies, ctx.gateNow, Servers[ctx.srv].SecretKey)
        /\ ~PassedGate => Challenged
        /\ (/\ SignedPair
            /\ ctx.gateNow <= ParseInt(ExpirationValue.val).val
            /\ minted[ctx.srv] > ParseInt(ExpirationValue.val).val)
              => PassedGate

\* a pair passes after the listener has signed a newer one and after other
\* requests have been turned away
C22_Witness ==
    /\ PassedGate /\ SignedPair
    /\ minted[ctx.srv] > ParseInt(ExpirationValue.val).val
    /\ nreq = MaxRequests

ClearDirectives(c) ==
    { i \in 1..Len(c.setCookies) : c.setCookies[i].MaxAge < 0 }

\* both cookies of the request are present and not empty
BothPresent ==
    /\ ~TokenValue.err /\ TokenValue.val # <<>>
    /\ ~ExpirationValue.err /\ ExpirationValue.val # <<>>

\* C29: when both cookies are present (and not empty) but the expiration
\* does not parse, the token is expired or the token fails verification,
\* the response first clears both cookies and then sets a fresh valid pair,
\* so the client is left with the fresh pair; when a cookie is missing or
\* empty the response has no clear directive and sets only the fresh pair.
C29_ClearThenSet ==
    (GateRan /\ ~PassedGate) =>
        LET fresh == FreshPair(ctx.srv, ctx.gateNow)
            n     == Len(ctx.setCookies)
        IN  /\ Challenged
            /\ ApplySetCookies(ctx.cookies, ctx.setCookies) = fresh
            /\ Decision(fresh, ctx.gateNow, Servers[ctx.srv].SecretKey)
            /\ ctx.setCookies[n - 1].Name = ValidationTokenCookie
            /\ ctx.setCookies[n - 1].Value = fresh.token.value
            /\ ctx.setCookies[n].Name = ValidationExpirationCookie
            /\ ctx.setCookies[n].Value = fresh.expiration.value
            /\ IF BothPresent
               THEN /\ n = 4
                    /\ ClearDirectives(ctx) = {1, 2}
                    /\ ctx.setCookies[1].Name = ValidationTokenCookie
                    /\ ctx.setCookies[2].Name = ValidationExpirationCookie
               ELSE /\ n = 2
                    /\ ClearDirectives(ctx) = {}

\* a signed pair that has expired is cleared and replaced
C29_Witness ==
    /\ Challenged /\ BothPresent /\ SignedPair
    /\ ctx.gateNow > ParseInt(ExpirationValue.val).val
    /\ ClearDirectives(ctx) = {1, 2}
    /\ ApplySetCookies(ctx.cookies, ctx.setCookies)
         = FreshPair(ctx.srv, ctx.gateNow)

(***************************************************************************)
(* Properties of the token codec (checked under SpecCodec).                *)
(***************************************************************************)
\* C7: verify(t, mint(t, s), s) is true; verify(t1, mint(t2, s2), s1) is
\* false whenever (t1, s1) # (t2, s2), the HMAC being collision-free; and a
\* malformed token (empty, cut, extended, altered, upper-case, not hex) is
\* answered false.
C7_TokenSoundness ==
    codec.pc = "verified" =>
        /\ codec.ok <=> (codec.t1 = codec.t2 /\ codec.s1 = codec.s2)
        /\ codec.accepted = {}

C7_Witness ==
    /\ codec.pc = "verified" /\ codec.ok
    /\ codec.t1 = <<"1", "0", "0", "0">> /\ codec.s1 = <<"a">>

\* the first position at which two strings of one length differ
FirstMismatch(x, y) ==
    LET at == { i \in 1..Len(x) : x[i] # y[i] }
    IN  CHOOSE i \in at : \A j \in at : i <= j

\* C27: verifyToken turns a token of another length than the expected one
\* away before it compares any byte, and for a token of the expected length
\* it compares every byte, so that the number of byte comparisons does not
\* depend on where the first mismatch is.
C27_ConstantTime ==
    codec.pc = "verified" =>
        LET expected == encryptToken(codec.t1, codec.s1)
        IN  \A m \in DOMAIN codec.looked :
                codec.looked[m] = IF Len(m) = Len(expected)
                                  THEN Len(expected) ELSE 0

\* two tokens of the expected length, one wrong in its first and one only in
\* its last character, one shorter token, and the same number of
\* comparisons for the first two
C27_Witness ==
    /\ codec.pc = "verified" /\ codec.ok
    /\ LET expected == encryptToken(codec.t1, codec.s1)
       IN  /\ \E m1, m2 \in DOMAIN codec.looked \ {expected} :
                 /\ Len(m1) = Len(expected) /\ Len(m2) = Len(expected)
                 /\ FirstMismatch(m1, expected) = 1
                 /\ FirstMismatch(m2, expected) = Len(expected)
                 /\ codec.looked[m1] = codec.looked[m2]
           /\ \E m \in DOMAIN codec.looked :
                 Len(m) < Len(expected) /\ codec.looked[m] = 0

(***************************************************************************)
(* Properties of the rate limiter (checked under SpecLimiter).             *)
(***************************************************************************)
TooManyRequests ==
    "{\"message\":\"Too many requests, please try again later.\"}"

\* C3: with ceiling N > 0, window W > 0 and a store that answers, of the
\* requests of one identity that reach the limiter within one window the
\* first N are handed on and every later one is answered 429 with the
\* "Too many requests" body and goes no further.
C3_Threshold ==
    (/\ ~Disabled(limit) /\ calls.last.outcome = "reply"
     /\ calls.last.clean) =>
        LET c == calls.last.c
        IN  IF calls.last.rank <= limit.Count
            THEN ~c.aborted /\ c.limiter = "pass" /\ c.status # 429
            ELSE /\ c.aborted /\ c.limiter = "reject"
                 /\ c.status = 429 /\ c.body = TooManyRequests
                 /\ ~c.forwarded

C3_Witness ==
    /\ limit.Count = 2 /\ calls.last.outcome = "reply" /\ calls.last.clean
    /\ calls.last.rank = 3 /\ calls.last.c.status = 429 /\ now > 0

\* C4: among the script runs on one key within one window exactly one sees
\* count = 1 and it alone sets the TTL, all of them see different counts,
\* and a rate key that exists always has a finite TTL.
C4_AtomicIncrement ==
    \A k \in RateKeys :
        LET seen == window[k].seen
        IN  /\ \A i, j \in 1..Len(seen) : i # j => seen[i][1] # seen[j][1]
            /\ seen # <<>> =>
                 Cardinality({i \in 1..Len(seen) : seen[i][1] = 1}) = 1
            /\ \A i \in 1..Len(seen) : seen[i][2] <=> seen[i][1] = 1
            /\ KeyExists(store, k) =>
                 store[k].expireAt # -1 /\ store[k].expireAt > now

C4_Witness ==
    \E k \in RateKeys :
        /\ Len(window[k].seen) >= 1
        /\ calls.worker[MaxCalls].phase = "run"
        /\ RateKey(GetClientIP(calls.worker[MaxCalls].client)) = k
        /\ KeyExists(store, k)

(***************************************************************************)
(* Properties of the pipeline (checked under Spec).                        *)
(***************************************************************************)
\* the handlers that have run are the first handlers of the chain, in order
RanInOrder ==
    ctx.phase # "idle" =>
        ctx.ran = SubSeq(Handlers(ctx.method, ctx.path), 1, Len(ctx.ran))

\* a challenge touches neither the rate counter nor the upstream, and a 429
\* of the limiter does not reach the upstream
StagesEndChain ==
    /\ (GateRan /\ ctx.body = verificationPage) =>
          /\ ~ctx.counted /\ ~ctx.forwarded
          /\ ~HasRun(ctx, "RateLimit") /\ ~HasRun(ctx, "Proxy")
    /\ ctx.limiter = "reject" =>
          /\ ctx.status = 429 /\ ~ctx.forwarded /\ ~HasRun(ctx, "Proxy")

\* the forwarded request went through the gate and then the limiter
ForwardedPassedStages ==
    /\ GateRan /\ ctx.setCookies = <<>>
    /\ HasRun(ctx, "RateLimit") /\ ctx.limiter # "reject"

\* C5 (as stated): the stages run in the order gate, limiter, proxy and each
\* can end the chain; a challenged request increments no counter and reaches
\* no upstream; a 429 reaches no upstream; every forwarded request has
\* passed the gate and has then been counted by the limiter.
C5_StagesAsStated ==
    /\ RanInOrder
    /\ StagesEndChain
    /\ ctx.forwarded => ForwardedPassedStages /\ ctx.counted

\* C5 (amended): as above, but the forwarded request has passed the gate
\* and then the limiter stage, which counted it unless the limiter is
\* switched off (Count = 0 or Window = 0) or its Eval failed.
C5_StagesAmended ==
    /\ RanInOrder
    /\ StagesEndChain
    /\ ctx.forwarded =>
          /\ ForwardedPassedStages
          /\ ctx.counted \/ ctx.limiter \in {"off", "failed"}
          /\ ctx.limiter = "off" <=> Disabled(limit)

C5_Witness ==
    /\ ctx.forwarded /\ ~ctx.counted /\ ctx.limiter = "failed"
    /\ ctx.cookies = jar /\ nreq > 1 /\ store # [k \in RateKeys |-> NoKey]

\* C6: GET /health and GET /status answer their 200 JSON payload without
\* passing the gate or the limiter: no verification cookie is set and no
\* rate counter is incremented, whatever cookies and rate the client has.
C6_AuxiliaryBypass ==
    (/\ ctx.phase = "done" /\ ctx.method = "GET"
     /\ ctx.path \in {"/health", "/status"}) =>
        /\ ctx.status = 200
        /\ ctx.body \in {"{status: healthy}", "{target_status: reachable}",
                         "{target_status: unreachable}"}
        /\ ctx.setCookies = <<>>
        /\ ~ctx.counted
        /\ ~HasRun(ctx, "CheckVerification") /\ ~HasRun(ctx, "RateLimit")

(***************************************************************************)
(* Properties of the shutdown (checked under SpecShutdown).                *)
(***************************************************************************)
\* C2: WaitForShutdown does not return before the 30 s deadline while a
\* request that was in flight when the signal came is still running.
C2_GracefulDrain ==
    (life.pc = "exited" /\ life.elapsed < GraceTimeout) =>
        \A i \in Listeners : life.before[i] = 0

(***************************************************************************)
(* Fail-open of the limiter (checked under SpecLimiter).                   *)
(***************************************************************************)
\* the handler gin runs after the limiter has returned with context c
NextHandler(c) ==
    IF Advance(c).phase = "run"
    THEN Handlers(c.method, c.path)[Advance(c).index] ELSE "none"

\* C11: when the Eval of RateLimitMiddleware fails (no reply, timeout, or a
\* reply that cannot be read) the request goes on to the proxy handler; the
\* limiter answers neither 429 nor an error, however many requests the
\* identity has sent.
C11_FailOpen ==
    (~Disabled(limit) /\ calls.last.outcome \in {"failed", "lost"}) =>
        LET c == calls.last.c
        IN  /\ ~c.aborted
            /\ c.status = 0 /\ c.body = ""
            /\ NextHandler(c) = "Proxy"

C11_Witness ==
    /\ limit.Count = 1 /\ calls.last.outcome = "lost"
    /\ calls.last.rank = 3 /\ ~calls.last.c.aborted

\* C25: with a ceiling or a window of zero RateLimitMiddleware does nothing:
\* no key of the store is created or changed, nothing is counted, and every
\* request is handed to the next handler.
C25_DisabledLimiter ==
    (limit.Count = 0 \/ limit.Window = 0) =>
        /\ store = [k \in RateKeys |-> NoKey]
        /\ window = [k \in RateKeys |-> NoWindow]
        /\ calls.last.outcome # "none" =>
              /\ ~calls.last.c.aborted /\ calls.last.c.status = 0
              /\ ~calls.last.c.counted
              /\ NextHandler(calls.last.c) = "Proxy"

\* with a window of zero and a ceiling of two a third request of one
\* client has passed, whatever Redis answered
C25_Witness ==
    /\ limit.Window = 0 /\ limit.Count > 0
    /\ nreq = MaxRequests
    /\ calls.last.outcome = "reply" /\ ~calls.last.c.aborted
    /\ \A p \in 1..MaxCalls : calls.worker[p].phase = "idle"

\* the handler of worker p ends in this step
Handled(p) ==
    calls.worker[p].phase = "run" /\ calls'.worker[p].phase = "idle"

\* the TTL of a key lasts from its creation for the length of the window and
\* is not extended; the first request after it has run out sees 1 again
FixedWindow(k) ==
    /\ KeyExists(store, k) <=> window[k].seen # <<>>
    /\ KeyExists(store, k) =>
          store[k].expireAt = window[k].start + limit.Window * 1000
    /\ \A i \in 1..Len(window[k].seen) : window[k].seen[i] = <<i, i = 1>>

\* C26 as stated: while the key of an identity exists its count is the number
\* of requests of that identity that have reached the limiter since the key
\* was created, so every handler that ends while the key exists has added
\* one to it; the TTL is set once, at creation, to the length of the window
\* and never extended; the first request after the TTL has run out sees 1.
C26_CountAsStated ==
    [][\A p \in 1..MaxCalls :
          LET k == RateKey(GetClientIP(calls.worker[p].client))
          IN  (/\ Handled(p) /\ ~Disabled(limit) /\ KeyExists(store, k)) =>
                 /\ store'[k].count = store[k].count + 1
                 /\ store'[k].expireAt = store[k].expireAt]_vars

\* C26 amended: while the key of an identity exists its count is the number
\* of requests of that identity whose script has run at the store since the
\* key was created (admitted, answered 429, or admitted because the reply
\* was lost); a request whose Eval fails before the script runs is admitted
\* and not counted.  The TTL is set once, at creation, to the length of the
\* window and never extended; the first request after the TTL has run out
\* sees 1 and begins a new window.
C26_CountAmended ==
    \A k \in RateKeys :
        /\ KeyExists(store, k) => store[k].count = Len(window[k].seen)
        /\ FixedWindow(k)

\* the last of MaxRequests requests has just created its key again, a
\* window length or more after the run began, and has been admitted under
\* a ceiling of one
C26_Witness ==
    LET k == RateKey(GetClientIP(calls.last.c.client))
    IN  /\ nreq = MaxRequests /\ limit.Count = 1
        /\ calls.last.outcome = "reply" /\ calls.last.rank = 1
        /\ ~calls.last.c.aborted
        /\ store[k].count = 1
        /\ window[k].start = now /\ now >= limit.Window * 1000
        /\ store[k].expireAt = now + limit.Window * 1000

(***************************************************************************)
(* Properties of the proxy handler (checked under SpecProxy).              *)
(***************************************************************************)
IsPrefix(a, b) == Len(a) <= Len(b) /\ SubSeq(b, 1, Len(a)) = a

\* C12: every request forwarded upstream carries an X-Forwarded-For chain
\* that starts with the inbound chain and ends with the resolved client
\* identity of the inbound request, and an X-Forwarded-Proto that is https
\* exactly when the inbound connection was TLS.
C12_ForwardedHeaders ==
    ctx.forwarded =>
        LET chain == ctx.outbound.XFF
        IN  /\ IsPrefix(ctx.client.XFF, chain)
            /\ chain # <<>>
            /\ TrimSpace(chain[Len(chain)]) = GetClientIP(ctx.client)
            /\ ctx.outbound.Proto = "https" <=> Servers[ctx.srv].HTTPS
            /\ ctx.outbound.Proto \in {"http", "https"}

\* the request carries a pair the gate of its listener accepts now
VerifiedClient ==
    /\ Signed(ctx, Servers[ctx.srv])
    /\ now <= ParseInt(ExpirationValue.val).val

\* the response is the one an upstream gave
Relayed ==
    ctx.forwarded /\ ctx.body = "upstream response"

\* a finished request on a proxied path of a listener whose target URL
\* parsed, from a verified client under its ceiling, that got no upstream
\* response
Unanswered ==
    /\ ctx.phase = "done"
    /\ RouteHandler(ctx.method, ctx.path) = "Proxy"
    /\ ~CreateReverseProxy(Servers[ctx.srv]).err
    /\ VerifiedClient
    /\ ctx.limiter # "reject"
    /\ ~Relayed

C14_PipelineResponses ==
    (/\ ctx.phase = "done"
     /\ RouteHandler(ctx.method, ctx.path) = "Proxy"
     /\ ~Relayed) =>
        /\ \/ ctx.status = 200 /\ ctx.body = verificationPage
           \/ ctx.status = 429 /\ ctx.body = TooManyRequests
           \/ ctx.status = 502 /\ ctx.body = errorPage
        /\ ctx.status # 500

(***************************************************************************)
(* Properties of the shutdown, continued.                                  *)
(***************************************************************************)
\* C15: once the signal is on the shutdown channel, WaitForShutdown reaches
\* cleanup and returns, at the latest when the 30 s timer has fired, also
\* when some listener never finishes.
C15_ShutdownTerminates ==
    life.signal ~> (life.pc = "exited" /\ life.released = 1)

C15_Witness ==
    /\ life.pc = "exited" /\ life.reason = "timeout" /\ life.released = 1
    /\ life.elapsed >= GraceTimeout
    /\ \E i \in Listeners : Serving(i) /\ InFlight(i) > 0

\* C16: store connection and log sinks are released exactly once, and only
\* after every listener has settled (no accepted request is still running)
\* or the grace timeout has fired.
C16_ReleaseAfterSettle ==
    /\ life.released <= 1
    /\ life.released = 1 =>
          \/ life.reason = "timeout"
          \/ \A i \in Listeners : InFlight(i) = 0

\* C17: when the serve loop of a listener stops with an error, the error is
\* logged, the other listeners and their requests are left as they are, and
\* the manager goes on waiting; it begins to shut down only on a signal.
C17_ListenersIndependent ==
    [][/\ \A i \in Listeners :
            (Serving(i) /\ life'.serve[i] = "failed") =>
                /\ i \in life'.logged
                /\ life'.pc = life.pc /\ life'.signal = life.signal
                /\ \A j \in Listeners \ {i} :
                      /\ life'.serve[j] = life.serve[j]
                      /\ life'.shut[j] = life.shut[j]
                      /\ life'.before[j] = life.before[j]
                      /\ life'.after[j] = life.after[j]
       /\ (life.pc = "wait" /\ life'.pc # "wait") => life.signal]_vars

C17_Witness ==
    /\ life.pc = "wait" /\ ~life.signal
    /\ life.serve[1] = "failed" /\ 1 \in life.logged
    /\ Serving(2) /\ life.before[2] > 0
    /\ life.before[1] = 0

(***************************************************************************)
(* Properties of the startup (checked under SpecStart).                    *)
(***************************************************************************)
\* spec k can start: it is plain, or its certificate/key pair loads
Startable(k) == ~life.config[k].HTTPS \/ life.config[k].PairOK

\* C18: TLS material that does not load is fatal only for its own listener:
\* the process ends at startup only when no listener can start at all, and
\* once Start is over every spec that can start has its listener.
C18_TlsFailureIsLocal ==
    /\ life.pc = "fatal" => \A k \in 1..Len(life.config) : ~Startable(k)
    /\ life.pc = "wait" =>
          \A k \in 1..Len(life.config) :
              Startable(k) => life.serve[k] # "none"

\* C19: a listener whose spec has HTTPS enabled never serves plaintext; its
\* pair is loaded before its serve goroutine is created, and when the load
\* fails no goroutine is created, nothing binds and startServer's error
\* ends Start.
C19_NoPlaintextOnHttps ==
    \A k \in 1..Len(life.config) :
        life.config[k].HTTPS =>
            /\ life.serve[k] # "plain" /\ life.accepted[k] # "plain"
            /\ life.serve[k] # "none" => life.config[k].PairOK
            /\ (~life.config[k].PairOK /\ life.i >= k
                /\ life.pc \notin {"main", "loop"}) => life.pc = "fatal"
            /\ (~life.config[k].PairOK) => life.i <= k

C19_Witness ==
    /\ Len(life.config) = 3
    /\ ~life.config[1].HTTPS /\ life.config[2].HTTPS /\ life.config[3].HTTPS
    /\ life.config[2].PairOK /\ ~life.config[3].PairOK
    /\ life.accepted[2] = "tls" /\ life.accepted[1] = "plain"
    /\ life.pc = "fatal"

\* C20: Start without specs returns its error before the signal handler is
\* installed and before any listener is created or bound; main ends the
\* process and no request is served.
C20_EmptyConfig ==
    Len(life.config) = 0 =>
        /\ ~life.notify
        /\ life.servers = <<>> /\ life.wg = 0
        /\ \A k \in 1..MaxSpecs :
              life.serve[k] = "none" /\ life.accepted[k] = "none"
        /\ life.pc \in {"main", "fatal"}

C20_Witness == Len(life.config) = 0 /\ life.pc = "fatal"

(***************************************************************************)
(* Properties of the listeners' life (checked under SpecLife).             *)
(***************************************************************************)
\* where listener k stands: its spec is loaded (configured); startServer has
\* created its serve goroutine, which has not bound yet (binding); it is in
\* its accept loop (serving); Shutdown has closed its listeners
\* (shutting-down); its serve goroutine has ended (stopped)
ListenerState(k) ==
    CASE life.serve[k] = "none" -> "configured"
      [] life.serve[k] = "created" -> "binding"
      [] Serving(k) /\ life.shut[k] \in {"none", "start"} -> "serving"
      [] Serving(k) /\ life.shut[k] \in {"draining", "done"} -> "shutting-down"
      [] OTHER -> "stopped"

ListenerRank(state) ==
    CASE state = "configured" -> 0
      [] state = "binding" -> 1
      [] state = "serving" -> 2
      [] state = "shutting-down" -> 3
      [] OTHER -> 4

\* C21 as stated: every listener moves only along configured -> binding ->
\* serving -> shutting-down -> stopped, one state at a time, never backwards,
\* and so reaches stopped only from shutting-down.
C21_ChainAsStated ==
    [][\A k \in 1..MaxSpecs :
          LET from == ListenerRank(ListenerState(k))
              to == ListenerRank(ListenerState(k)')
          IN  to = from \/ to = from + 1]_vars

\* C21 amended: every listener moves only forwards along the chain and one
\* state at a time, except that it goes to stopped directly from binding
\* (the bind fails, or Shutdown was called before the bind) and from serving
\* (the serve loop fails).
C21_ChainAmended ==
    [][\A k \in 1..MaxSpecs :
          LET from == ListenerRank(ListenerState(k))
              to == ListenerRank(ListenerState(k)')
          IN  \/ to = from
              \/ to = from + 1
              \/ to = 4 /\ from \in {1, 2}]_vars

\* listener 1 served a request and was stopped by the shutdown; listener 2
\* stopped on its own
C21_Witness ==
    /\ life.serve[1] = "returned" /\ life.before[1] > 0
    /\ life.shut[1] \in {"draining", "done"}
    /\ life.serve[2] = "failed"

\* C36: Start returns although no listener has bound yet: once the loop
\* over the specs is through it can return whatever the serve goroutines
\* have done.  A listener whose bind fails afterwards is logged and stays
\* in m.servers, nothing else changes; and the process leaves its wait only
\* for a shutdown signal, also when every listener has failed to bind.
C36_StartDoesNotWaitForBind ==
    /\ []((life.pc = "loop" /\ life.i > Len(life.config))
            => ENABLED StartReturn)
    /\ [][/\ \A k \in 1..MaxSpecs :
              (life.serve[k] = "created" /\ life'.serve[k] = "failed") =>
                  /\ k \in life'.logged
                  /\ life'.servers = life.servers
                  /\ life'.pc = life.pc /\ life'.signal = life.signal
                  /\ \A j \in 1..MaxSpecs \ {k} :
                        /\ life'.serve[j] = life.serve[j]
                        /\ life'.shut[j] = life.shut[j]
          /\ (life.pc = "wait" /\ life'.pc # "wait") =>
                 (life.signal /\ life'.pc = "select")]_vars

\* Start has returned, no signal has come, both listeners have failed to
\* bind and are logged and still in m.servers: the process waits
C36_Witness ==
    /\ life.pc = "wait" /\ ~life.signal
    /\ Len(life.config) = 2 /\ life.servers = <<1, 2>>
    /\ life.serve[1] = "failed" /\ life.serve[2] = "failed"
    /\ life.logged = {1, 2} /\ life.wg = 0

\* C37: when the ping of the store at the construction of the Manager has
\* failed, no request handled afterwards is answered 429, also when the
\* store is reachable by then.
C37_NoLimitAfterFailedPing ==
    codec.ping = "refused" => calls.last.c.status # 429

\* worker p has run RequestIDMiddleware
Stamped(p) ==
    calls.worker[p].phase = "run" /\ calls.worker[p].index > RequestIDIndex

\* the X-Request-ID of the response of worker p
RequestIDOf(p) ==
    (CHOOSE h \in calls.worker[p].header : h[1] = "X-Request-ID")[2]

\* C38: no two requests handled by the process, on the same or on different
\* listeners, get the same X-Request-ID.
C38_UniqueRequestID ==
    \A p, q \in 1..MaxCalls :
        (p # q /\ Stamped(p) /\ Stamped(q)) => RequestIDOf(p) # RequestIDOf(q)

\* C39: IncrementCounter applies its increment and its expiry as one atomic
\* operation: in no state, under any interleaving with other clients of the
\* store and also when the call fails part-way, does a key exist that has
\* been incremented and has no TTL.
C39_IncrementAtomic ==
    \A k \in RateKeys : KeyExists(store, k) => store[k].expireAt # -1

\* Shutdown has closed the listeners of server k: its stop request is in
\* effect
StopInEffect(k) == life.shut[k] \in {"draining", "done"}

\* C30: on the shutdown signal the manager sends exactly one stop request
\* to every listener Start created, each standing in m.servers exactly
\* once, and none before the signal; from the moment the stop request of a
\* listener is in effect that listener accepts no connection; and the step
\* in which a stop request is sent or takes effect leaves the requests
\* already accepted as they are.
C30_StopRequests ==
    /\ [](\A k \in 1..MaxSpecs :
            LET created == IF k <= Len(life.config) THEN 1 ELSE 0
            IN  IF life.pc \in {"select", "exited"}
                THEN /\ Occurrences(life.servers, k) = created
                     /\ life.stops[k] = created
                ELSE /\ life.stops[k] = 0
                     /\ life.shut[k] = "none")
    /\ [][\A k \in 1..MaxSpecs :
            /\ StopInEffect(k) =>
                  /\ life'.before[k] <= life.before[k]
                  /\ life'.after[k] <= life.after[k]
            /\ (life'.shut[k] # life.shut[k]
                   \/ life'.stops[k] # life.stops[k]) =>
                  /\ life'.before = life.before
                  /\ life'.after = life.after]_vars

\* the stop request of listener 1 is in effect while a request it accepted
\* before the signal still runs; listener 2, whose stop request has been
\* sent but is not in effect yet, has accepted a request after the signal
C30_Witness ==
    /\ life.pc = "select"
    /\ life.stops[1] = 1 /\ life.stops[2] = 1
    /\ life.shut[1] = "draining" /\ life.before[1] > 0
    /\ life.shut[2] = "start" /\ life.after[2] > 0

(***************************************************************************)
(* Properties of GetClientIP (checked under SpecIdentity).                 *)
(***************************************************************************)
\* the candidates for the client identity, in the order of preference
Candidates(r) ==
    << r.CF, r.RealIP,
       IF r.XFF = <<>> THEN "" ELSE TrimSpace(r.XFF[1]),
       r.RemoteAddr.host >>

\* C24: GetClientIP returns the first non-empty one of the CF-Connecting-IP
\* header, the X-Real-IP header and the trimmed first address of
\* X-Forwarded-For, and the host of the socket address when none of them
\* is present.
C24_ClientIdentity ==
    codec.pc = "resolved" =>
        LET cand == Candidates(codec.r)
            present == { i \in 1..3 : cand[i] # "" }
        IN  codec.ip = IF present = {} THEN cand[4]
                       ELSE cand[CHOOSE i \in present :
                                   \A j \in present : i <= j]

(***************************************************************************)
(* Properties of the response headers (checked under SpecProxy).           *)
(***************************************************************************)
HasHeader(c, key) == \E h \in c.header : h[1] = key

\* C28: every response of a listener carries X-Content-Type-Options:
\* nosniff, X-Frame-Options: DENY and X-XSS-Protection: 1; mode=block, and
\* it carries Strict-Transport-Security exactly when the inbound connection
\* was TLS.
C28_SecurityHeaders ==
    ctx.phase = "done" =>
        /\ <<"X-Content-Type-Options", "nosniff">> \in ctx.header
        /\ <<"X-Frame-Options", "DENY">> \in ctx.header
        /\ <<"X-XSS-Protection", "1; mode=block">> \in ctx.header
        /\ HasHeader(ctx, "Strict-Transport-Security")
              <=> Servers[ctx.srv].HTTPS

(***************************************************************************)
(* Properties of the transports (checked under SpecTransport).             *)
(***************************************************************************)
\* C31: a listener whose spec has CtnMax = M > 0 never has more than M
\* connections open from its transport to the upstream, however many
\* requests run at once; with M = 0 nothing bounds them: no request waits
\* for a connection, each gets one at once.
C31_UpstreamConnections ==
    \A i \in 1..Len(Servers) :
        IF Servers[i].CtnMax > 0
        THEN Conns(i) <= Servers[i].CtnMax
        ELSE pool[i].waiting = 0

\* alpha (M = 0) has as many connections as requests, beta (M = 1) has one
\* connection and requests waiting for it
C31_Witness ==
    /\ Servers[1].CtnMax = 0 /\ pool[1].active = MaxStreams
    /\ Servers[2].CtnMax = 1 /\ Conns(2) = 1 /\ pool[2].waiting > 1

(***************************************************************************)
(* Properties of the relayed responses (checked under SpecProxy).          *)
(***************************************************************************)
\* C32: every relayed upstream response has no Server and no X-Powered-By
\* header, carries X-Proxy-By: OkaProxy and X-Content-Type-Options: nosniff
\* (and no other value of it), whatever headers the upstream sent, and has
\* the status code of the upstream.
C32_ResponseRewriting ==
    (ctx.phase = "done" /\ Relayed) =>
        /\ \A h \in ctx.header :
              /\ h[1] \notin {"Server", "X-Powered-By"}
              /\ h[1] = "X-Content-Type-Options" => h[2] = "nosniff"
        /\ <<"X-Proxy-By", "OkaProxy">> \in ctx.header
        /\ <<"X-Content-Type-Options", "nosniff">> \in ctx.header
        /\ ctx.status = ctx.relay.status

\* an upstream that answers 404 with Server, X-Powered-By and its own
\* X-Content-Type-Options
C32_Witness ==
    /\ ctx.phase = "done" /\ Relayed
    /\ ctx.relay.status = 404
    /\ <<"Server", "nginx">> \in ctx.relay.header
    /\ <<"X-Powered-By", "PHP">> \in ctx.relay.header
    /\ <<"X-Content-Type-Options", "none">> \in ctx.relay.header

(***************************************************************************)
(* Properties of the limiter's scope (checked under SpecScope).            *)
(***************************************************************************)
\* C33: the counter a request increments is that of its resolved client
\* identity and no other, whatever listener handles it and whatever socket
\* address it comes from: a request with a CF-Connecting-IP header counts
\* on the counter of that value; requests of one identity on different
\* listeners and from different socket addresses add up on one counter,
\* and each is refused exactly when that counter is over the one ceiling.
C33_CounterScope ==
    /\ [][(Current = "RateLimit" /\ ~Disabled(limit)) =>
            LET k == RateKey(GetClientIP(ctx.client))
                n == store[k].count
            IN  /\ ctx.client.CF # "" => k = RateKey(ctx.client.CF)
                /\ ctx'.counted <=> store' # store
                /\ \A j \in RateKeys \ {k} : store'[j] = store[j]
                /\ store'[k].count \in {n, n + 1}
                /\ ctx'.counted => store'[k].count = n + 1
                /\ ctx'.limiter \in {"pass", "reject"} =>
                      (ctx'.status = 429 <=> n + 1 > limit.Count)]_vars
    /\ [](\A k \in RateKeys :
            store[k].count = Len(window[k].seen))

\* a request from socket 10.0.0.2 with CF-Connecting-IP 10.0.0.1 on gamma
\* is refused because the one request counted before it, on alpha, has
\* used the ceiling of 1 of that identity; the counter of 10.0.0.2, the
\* socket address, is untouched
C33_Witness ==
    /\ limit.Count = 1
    /\ ctx.phase = "done" /\ ctx.srv = 3 /\ ctx.status = 429
    /\ ctx.client = Client("10.0.0.1", "", <<>>, "10.0.0.2")
    /\ upstream = [i \in 1..Len(Servers) |-> IF i = 1 THEN 1 ELSE 0]
    /\ store[RateKey("10.0.0.1")].count = 2
    /\ store[RateKey("10.0.0.2")].count = 0

(***************************************************************************)
(* Properties of the preflights (checked under SpecPreflight).             *)
(***************************************************************************)
\* C34: every OPTIONS request, on any path and with or without
\* verification cookies, is answered 204 by CORSMiddleware and goes no
\* further: the gate does not run, no cookie is set, no rate counter is
\* incremented and the upstream gets no request.
C34_Preflight ==
    /\ [](ctx.method = "OPTIONS" =>
            /\ \A i \in 1..Len(ctx.ran) :
                  ctx.ran[i] \notin {"CheckVerification", "RateLimit",
                                     "Proxy", "Status", "HealthCheck"}
            /\ ctx.setCookies = <<>>
            /\ ~ctx.counted /\ ~ctx.forwarded /\ ~ctx.probed
            /\ ctx.phase = "done" =>
                  /\ ctx.status = 204 /\ ctx.body = ""
                  /\ ctx.aborted
                  /\ ctx.ran[Len(ctx.ran)] = "CORS")
    /\ [][ctx.method = "OPTIONS" =>
            /\ store' = store
            /\ upstream' = upstream]_vars

\* a preflight on /status of beta with the cookies of a challenge, after
\* the limiter has counted a request
C34_Witness ==
    /\ ctx.phase = "done" /\ ctx.method = "OPTIONS"
    /\ ctx.path = "/status" /\ ctx.srv = 2
    /\ ctx.cookies.token.present /\ ctx.cookies = jar
    /\ ctx.status = 204
    /\ \E k \in RateKeys : store[k].count = 1

(***************************************************************************)
(* Properties of the Director (checked under SpecDirector).                *)
(***************************************************************************)
\* C35: on every forwarded request the X-Real-IP sent upstream equals the
\* client identity GetClientIP resolves from the inbound request, for every
\* combination of CF-Connecting-IP, X-Real-IP and X-Forwarded-For headers
\* on the inbound request.
C35_RealIP ==
    codec.pc = "directed" => codec.out.RealIP = codec.ip

====
